---- MODULE Spec2Model ----
(***************************************************************************)
(* Sandbox lifecycle controller (hooks/useWebContainer.ts) and the         *)
(* self-healing loop of the App component that drives it.                   *)
(*                                                                         *)
(* Execution model: one JavaScript thread.  Every handler runs to its next *)
(* `await` without interruption; each `await` is a suspension point after  *)
(* which the continuation is a separate step.  The engine (WebContainer),  *)
(* the fixer service and the user are the environment.                     *)
(*                                                                         *)
(* Specifications: SpecBoot (page load: pre-warm, boot and the calls that  *)
(* wait for them), SpecRun (dev-server runs on the pre-warmed page),       *)
(* SpecPreview (upload to running preview), SpecFix (errors and fixes in   *)
(* the running preview), SpecBudget (a long session of failing fixes),     *)
(* SpecOutput (a long base install filling the terminal), SpecPreviewRooted*)
(* and SpecFixRooted (the same for a project zipped with its folder),      *)
(* SpecParse (the watcher reading the terminal), SpecLoad (resets while    *)
(* the page loads), SpecFixLive (the fix loop with its ready steps taken   *)
(* fairly), SpecResolve (runtime errors over several uploaded trees),      *)
(* SpecBusy (server output arriving only while a fix is in flight),        *)
(* SpecSession (one session from page load to a served preview) and        *)
(* SpecCache (the dependency cache record beside the page load).           *)
(***************************************************************************)
EXTENDS Integers, Sequences, FiniteSets, Bags, TLC

(* ------------------------------ bounds -------------------------------- *)
\* concurrent API calls (mountFiles / startDevServer / updateFile) in flight
MaxTasks == 2
\* WebContainer.boot() invocations; the last one allowed cannot fail
MaxBoots == 2
\* mountFiles / startDevServer / updateFile calls over the life of the page
MaxCalls == 2
\* preWarm() invocations (the mount effect, re-run effects, further hook instances)
MaxPreWarm == 2
\* user actions, preview messages, process output chunks and fixer replies
MaxEvents == 6
\* runtime-error timers pending at once
MaxTimers == 2
\* user actions on the way to the first preview
MaxClicks == 3
\* chunks the base install writes while the page loads
MaxLines == 100

(* ------------------------- program constants -------------------------- *)
OUTPUT_KEEP == 100
MAX_FIX_ATTEMPTS == 15

\* `null` of a string-valued cell, of a handle-valued cell, of a promise cell
Null == "null"
NoHandle == 0
\* exit code of a process that has not exited
Pending == -1

(* ------------------------------ strings ------------------------------- *)
Max(a, b) == IF a > b THEN a ELSE b
Min(a, b) == IF a < b THEN a ELSE b

\* String.prototype.includes
Includes(s, sub) ==
    \E i \in 1..(Len(s) - Len(sub) + 1) : SubSeq(s, i, i + Len(sub) - 1) = sub

\* Array/String.prototype.slice(-n)
SliceLast(s, n) == SubSeq(s, Max(1, Len(s) - n + 1), Len(s))

\* Array/String.prototype.slice(0, n)
SliceFirst(s, n) == SubSeq(s, 1, Min(n, Len(s)))

RECURSIVE TrimLeft(_)
TrimLeft(s) ==
    IF Len(s) > 0 /\ SubSeq(s, 1, 1) = " " THEN TrimLeft(SubSeq(s, 2, Len(s))) ELSE s

RECURSIVE TrimRight(_)
TrimRight(s) ==
    IF Len(s) > 0 /\ SubSeq(s, Len(s), Len(s)) = " "
    THEN TrimRight(SubSeq(s, 1, Len(s) - 1)) ELSE s

\* String.prototype.trim (lines never hold a newline: they come from split)
Trim(s) == TrimRight(TrimLeft(s))

StartsWith(s, pre) == Len(pre) <= Len(s) /\ SubSeq(s, 1, Len(pre)) = pre

\* String.prototype.replace(pattern, replacement) with a string pattern:
\* the first occurrence only
RECURSIVE ReplaceFirst(_, _, _)
ReplaceFirst(s, pat, rep) ==
    IF Len(s) < Len(pat) THEN s
    ELSE IF SubSeq(s, 1, Len(pat)) = pat THEN rep \o SubSeq(s, Len(pat) + 1, Len(s))
    ELSE SubSeq(s, 1, 1) \o ReplaceFirst(SubSeq(s, 2, Len(s)), pat, rep)

\* A filesystem tree, flattened: file path -> contents
EmptyFs == [p \in {} |-> ""]
(* --------------------------- output buffer ---------------------------- *)
\* appendOutput: the early return, then the functional state update.
\* The lines the hook writes are given without their leading emoji.
appendOutput(buf, line) ==
    IF Includes(line, "[0K") \/ Includes(line, "[1G") \/ Len(Trim(line)) < 2
    THEN buf
    ELSE Append(SliceLast(buf, OUTPUT_KEEP), line)

RECURSIVE appendAll(_, _)
appendAll(buf, lines) ==
    IF lines = <<>> THEN buf
    ELSE appendAll(appendOutput(buf, Head(lines)), Tail(lines))

(* ------------------------- error extraction --------------------------- *)
CharAt(s, i) == SubSeq(s, i, i)

\* The literal `lit` stands in s at position i
At(s, i, lit) == i >= 1 /\ i + Len(lit) - 1 <= Len(s) /\ SubSeq(s, i, i + Len(lit) - 1) = lit

EndsWith(s, suf) == Len(suf) <= Len(s) /\ SubSeq(s, Len(s) - Len(suf) + 1, Len(s)) = suf

\* \w
WordChars ==
    {"a", "b", "c", "d", "e", "f", "g", "h", "i", "j", "k", "l", "m", "n", "o", "p", "q",
     "r", "s", "t", "u", "v", "w", "x", "y", "z", "A", "B", "C", "D", "E", "F", "G", "H",
     "I", "J", "K", "L", "M", "N", "O", "P", "Q", "R", "S", "T", "U", "V", "W", "X", "Y",
     "Z", "0", "1", "2", "3", "4", "5", "6", "7", "8", "9", "_"}
\* [\w\-\/]
PathChars == WordChars \cup {"-", "/"}
\* ["']
Quotes == {"\"", "'"}
\* \s, and the characters `.` does not match
Whitespace == {" ", "\t", "\n", "\r"}
LineEnds == {"\n", "\r"}

\* Length of the longest run of characters in C (outside C) that starts at i
RECURSIVE RunLen(_, _, _)
RunLen(s, i, C) ==
    IF i <= Len(s) /\ CharAt(s, i) \in C THEN 1 + RunLen(s, i + 1, C) ELSE 0

RECURSIVE RunLenNot(_, _, _)
RunLenNot(s, i, C) ==
    IF i <= Len(s) /\ CharAt(s, i) \notin C THEN 1 + RunLenNot(s, i + 1, C) ELSE 0

\* /src\/[\w\-\/]+\.tsx?/ anchored at i: the length of the match, 0 if none.
\* The class excludes ".", so the greedy run is the only candidate.
SrcPathLen(s, i) ==
    IF ~At(s, i, "src/") THEN 0
    ELSE LET n == RunLen(s, i + 4, PathChars)
             j == i + 4 + n
         IN  IF n >= 1 /\ At(s, j, ".ts")
             THEN 4 + n + 3 + (IF At(s, j + 3, "x") THEN 1 ELSE 0)
             ELSE 0

\* text.match(/(?:src\/[\w\-\/]+\.tsx?)/): the leftmost match, Null if none
FirstSrcPath(s) ==
    LET I == {i \in 1..Len(s) : SrcPathLen(s, i) > 0}
    IN  IF I = {} THEN Null
        ELSE LET i == CHOOSE k \in I : \A m \in I : k <= m
             IN  SubSeq(s, i, i + SrcPathLen(s, i) - 1)

\* /["']([^"']+)["']/ anchored at i: the position after the match, 0 if none
QuotedEnd(s, i) ==
    IF i > Len(s) \/ CharAt(s, i) \notin Quotes THEN 0
    ELSE LET n == RunLenNot(s, i + 1, Quotes)
         IN  IF n >= 1 /\ i + 1 + n <= Len(s) THEN i + n + 2 ELSE 0

\* /Failed to resolve import ["']([^"']+)["'] from ["']([^"']+)["']/
ResolveError(s) ==
    \E i \in 1..Len(s) :
        /\ At(s, i, "Failed to resolve import ")
        /\ LET a == QuotedEnd(s, i + 25)
           IN  a > 0 /\ At(s, a, " from ") /\ QuotedEnd(s, a + 6) > 0

\* /Cannot find module ['"]([^'"]+)['"]/
ModuleNotFound(s) ==
    \E i \in 1..Len(s) : At(s, i, "Cannot find module ") /\ QuotedEnd(s, i + 19) > 0

\* /(\w+) is not defined/
NotDefined(s) ==
    \E i \in 2..Len(s) : At(s, i, " is not defined") /\ CharAt(s, i - 1) \in WordChars

\* /(SyntaxError|TypeError|ReferenceError):\s*(.+?)(?:\n|$)/
ThrownError(s) ==
    \E name \in {"SyntaxError", "TypeError", "ReferenceError"}, i \in 1..Len(s) :
        /\ At(s, i, name \o ":")
        /\ LET j == i + Len(name) + 1
           IN  \E k \in 0..RunLen(s, j, Whitespace) :
                   LET d == RunLenNot(s, j + k, LineEnds)
                   IN  d >= 1 /\ (j + k + d > Len(s) \/ CharAt(s, j + k + d) = "\n")

\* Array.prototype.join('\n')
RECURSIVE Join(_)
Join(lines) ==
    IF lines = <<>> THEN ""
    ELSE IF Len(lines) = 1 THEN Head(lines)
    ELSE Head(lines) \o "\n" \o Join(Tail(lines))

\* String.prototype.split('\n').filter(Boolean)
RECURSIVE SplitLines(_)
SplitLines(s) ==
    LET n == RunLenNot(s, 1, {"\n"})
        rest == IF n < Len(s) THEN SplitLines(SubSeq(s, n + 2, Len(s))) ELSE <<>>
    IN  IF s = "" THEN <<>>
        ELSE IF n = 0 THEN rest
        ELSE <<SubSeq(s, 1, n)>> \o rest

\* An error candidate; `null` is the candidate without a file
NoCandidate == [file |-> "", error |-> ""]

PARSE_LINES == 60
PARSE_CHARS == 500
KEY_CHARS == 50

\* text is bound once, to the joined lines, and the candidate computed from it
parseErrorWholeBuffer(output) ==
    LET candidate(text) ==
            IF (ResolveError(text) \/ ModuleNotFound(text) \/ NotDefined(text) \/ ThrownError(text))
               /\ FirstSrcPath(text) # Null
            THEN [file |-> FirstSrcPath(text), error |-> SliceLast(text, PARSE_CHARS)]
            ELSE NoCandidate
    IN  CHOOSE c \in {candidate(text) : text \in {Join(output)}} : TRUE
parseError(output) ==
    LET candidate(text) ==
            IF (ResolveError(text) \/ ModuleNotFound(text) \/ NotDefined(text) \/ ThrownError(text))
               /\ FirstSrcPath(text) # Null
            THEN [file |-> FirstSrcPath(text), error |-> SliceLast(text, PARSE_CHARS)]
            ELSE NoCandidate
    IN  CHOOSE c \in {candidate(text) : text \in {Join(SliceLast(output, PARSE_LINES))}} : TRUE

\* parseStackTrace(stack).filePath: the first project source path in the stack
parseStackTrace(stack) == FirstSrcPath(stack)

\* The dedup key of a candidate
errorKey(errorFile, errorText) == errorFile \o ":" \o SliceFirst(errorText, KEY_CHARS)

(* ----------------------------- file trees ----------------------------- *)
File(name, path, content) ==
    [name |-> name, path |-> path, type |-> "file", content |-> content, children |-> <<>>]
Dir(name, path, children) ==
    [name |-> name, path |-> path, type |-> "directory", content |-> "", children |-> children]
\* `undefined` as a result of Array.prototype.find
NoNode == File("", "", "")

RECURSIVE flattenFiles(_)
flattenFiles(nodes) ==
    IF nodes = <<>> THEN <<>>
    ELSE LET node == Head(nodes)
         IN  (IF node.type = "file" THEN <<node>> ELSE <<>>)
             \o flattenFiles(node.children) \o flattenFiles(Tail(nodes))

findRootPrefix(nodes) ==
    IF Len(nodes) = 1 /\ nodes[1].type = "directory" THEN nodes[1].path \o "/" ELSE ""

\* toWebContainerFS, as the flat tree path -> contents: the nodes in traversal
\* order, each path stripped of the prefix, a later entry replacing an earlier
RECURSIVE toFsFrom(_, _, _)
toFsFrom(acc, nodes, stripPrefix) ==
    IF nodes = <<>> THEN acc
    ELSE LET node == Head(nodes)
             path == IF stripPrefix # "" /\ StartsWith(node.path, stripPrefix)
                     THEN SubSeq(node.path, Len(stripPrefix) + 1, Len(node.path))
                     ELSE node.path
         IN  toFsFrom(IF path = "" THEN acc
                      ELSE [q \in DOMAIN acc \cup {path} |->
                               IF q = path THEN node.content ELSE acc[q]],
                      Tail(nodes), stripPrefix)

toWebContainerFS(nodes, stripPrefix) == toFsFrom(EmptyFs, flattenFiles(nodes), stripPrefix)

\* A patch of the top level of the tree only
updateFileInTreeShallow(nodes, path, fixedCode) ==
    [i \in 1..Len(nodes) |->
        IF nodes[i].path = path THEN [nodes[i] EXCEPT !.content = fixedCode] ELSE nodes[i]]

\* The closure updateFileInTree of fixCodeError
RECURSIVE updateFileInTree(_, _, _)
updateFileInTree(nodes, path, fixedCode) ==
    [i \in 1..Len(nodes) |->
        IF nodes[i].path = path THEN [nodes[i] EXCEPT !.content = fixedCode]
        ELSE IF nodes[i].type = "directory"
        THEN [nodes[i] EXCEPT !.children = updateFileInTree(@, path, fixedCode)]
        ELSE nodes[i]]

\* Array.prototype.find over a list of file nodes, given the indices that match
FindFirst(nodes, I) ==
    IF I = {} THEN NoNode ELSE nodes[CHOOSE k \in I : \A m \in I : k <= m]

\* errorFile.split('/').pop()
RECURSIVE BaseName(_)
BaseName(path) ==
    IF path = "" \/ CharAt(path, Len(path)) = "/" THEN ""
    ELSE BaseName(SubSeq(path, 1, Len(path) - 1)) \o CharAt(path, Len(path))

\* A resolution that falls back to the first file of the tree
targetFileOrFirst(nodes, errorFile) ==
    LET allFiles == flattenFiles(nodes)
        ByAny(f) == \/ f.path = errorFile
                    \/ EndsWith(f.path, errorFile)
                    \/ Includes(f.path, ReplaceFirst(errorFile, "src/", ""))
                    \/ f.name = BaseName(errorFile)
    IN  FindFirst(allFiles, IF \E k \in DOMAIN allFiles : ByAny(allFiles[k])
                            THEN {k \in DOMAIN allFiles : ByAny(allFiles[k])}
                            ELSE DOMAIN allFiles)
\* The file fixCodeError resolves a candidate's path to (NoNode if none)
targetFile(nodes, errorFile) ==
    LET allFiles == flattenFiles(nodes)
        ByPath(f) == \/ f.path = errorFile
                     \/ EndsWith(f.path, errorFile)
                     \/ Includes(f.path, ReplaceFirst(errorFile, "src/", ""))
        ByName(f) == f.name = BaseName(errorFile)
        first == FindFirst(allFiles, {k \in DOMAIN allFiles : ByPath(allFiles[k])})
    IN  IF first.content # "" THEN first
        ELSE IF BaseName(errorFile) # ""
        THEN FindFirst(allFiles, {k \in DOMAIN allFiles : ByName(allFiles[k])})
        ELSE first

(* ------------------------------- state -------------------------------- *)
VARIABLES
    \* module-level singletons of useWebContainer.ts
    webcontainerInstance,   \* NoHandle, or the number of the engine boot that produced it
    bootPromise,            \* NoHandle, or the number of the engine boot it stands for
    preWarmPromise,         \* Null | "pending" | "settled"
    isPreWarmedFlag,
    \* hook state
    isBooting, isInstalling, isRunning, previewUrl, error, terminalOutput,
    isPreWarmed, isPreWarming,
    processRef,             \* NoHandle, or the pid of the stored dev-server handle
    \* the engine
    bootOutcome,            \* per WebContainer.boot() call: "pending" | "ok" | "failed"
    listeners,              \* 'server-ready' listeners registered on the instance
    procs,                  \* processes spawned in the sandbox, by pid
    fs,                     \* the mounted filesystem: path -> contents
    \* suspended async calls
    pw,                     \* the pre-warm closure behind preWarmPromise
    preWarmCalls,           \* number of preWarm() invocations so far
    tasks,                  \* in-flight mountFiles / startDevServer / updateFile calls
    calls,                  \* number of such calls made so far
    lastOp,                 \* the operation the last step belonged to
    \* App state
    files, selectedFile, zipName, isExtracting, isFixing, fixCount, currentAction, fixLog,
    \* App refs
    fixingRef, fixAttempts, lastErrorRef, filesRef,
    \* timers and pending work of App
    upload,                 \* the tree extractZip is about to return
    debounce,               \* the candidate of the pending terminal-watch timeout
    rtTimers,               \* candidates of the pending runtime-error timeouts, oldest first
    session,                \* number of resets so far (handleReset, handleFileUpload)
    events,                 \* number of inputs from the user and the environment so far
    depsCache               \* the persisted record that the base install was done, and its store

hookVars == <<isBooting, isInstalling, isRunning, previewUrl, error, terminalOutput,
              isPreWarmed, isPreWarming, processRef>>
bootVars == <<webcontainerInstance, bootPromise, bootOutcome, listeners>>
preVars == <<preWarmPromise, isPreWarmedFlag, pw, preWarmCalls, depsCache>>
fixVars == <<isFixing, fixingRef, currentAction, fixCount, fixLog, fixAttempts,
             lastErrorRef>>
treeVars == <<files, filesRef, selectedFile, zipName, isExtracting, upload>>
\* App state other than the terminal-watch timeout
appCore == <<fixVars, treeVars, rtTimers, session, events>>
appVars == <<appCore, debounce>>
vars == <<webcontainerInstance, bootPromise, preWarmPromise, isPreWarmedFlag,
          isBooting, isInstalling, isRunning, previewUrl, error, terminalOutput,
          isPreWarmed, isPreWarming, processRef, bootOutcome, listeners, procs, fs,
          pw, preWarmCalls, depsCache, tasks, calls, lastOp, appVars>>

\* The suspended calls form a bag: calls in the same state are interchangeable
Suspended == BagToSet(tasks)
Put(r) == SetToBag({r})
\* A suspended call: the operation, where it is suspended, the boot it awaits,
\* its argument (a tree; for updateFile the one file to write), the process it
\* awaits, and who awaits the call itself ("" when nobody does).
\* A fix attempt also carries the error text it sends, the file contents it
\* read, the session it was started in and its number within the session.
Call(op, bp, arg, k) ==
    [op |-> op, pc |-> "awaitBoot", bp |-> bp, arg |-> arg, proc |-> NoHandle,
     k |-> k, text |-> "", content |-> "", gen |-> 0, attempt |-> 0]
Resume(r, next) == (tasks (-) Put(r)) (+) Put(next)
Finish(r) == tasks (-) Put(r)
\* The call returns: its awaiter, if any, continues in a later step
Settle(r) == IF r.k = "" THEN Finish(r) ELSE Resume(r, [r EXCEPT !.pc = "resolved"])
IdlePw == [pc |-> "idle", bp |-> NoHandle, proc |-> NoHandle, joined |-> 0]

engineBoots == Len(bootOutcome)

\* instance.mount: the files of the tree are written over the filesystem
MountTree(old, tree) ==
    [p \in DOMAIN old \cup DOMAIN tree |-> IF p \in DOMAIN tree THEN tree[p] ELSE old[p]]

Pids == 1..Len(procs)
AliveDev == {p \in Pids : procs[p].kind = "dev" /\ procs[p].alive}

\* Bound on the calls in flight
FreeTask == BagCardinality(tasks) < MaxTasks

\* Bound on the history: the page makes no more than MaxCalls API calls
Room == calls < MaxCalls

\* The store as a page finds it on a first visit: not opened yet (dbPromise
\* null), nothing under CACHE_KEY.  `last` is the last of markDepsInstalled and
\* clearDepsCache that went through, `result` what areDepsInstalled returned
\* last, `caught` whether the last call ended in its catch block.
FreshCache ==
    [db |-> Null, entry |-> "none", last |-> "none", result |-> "none", caught |-> FALSE]

AppInit ==
    /\ files = <<>> /\ filesRef = <<>>
    /\ selectedFile = Null /\ zipName = ""
    /\ isExtracting = FALSE /\ upload = <<>>
    /\ isFixing = FALSE /\ fixingRef = FALSE
    /\ currentAction = Null
    /\ fixCount = 0 /\ fixLog = <<>>
    /\ fixAttempts = 0 /\ lastErrorRef = ""
    /\ debounce = NoCandidate
    /\ rtTimers = <<>>
    /\ session = 0
    /\ events = 0

Init ==
    /\ AppInit
    /\ webcontainerInstance = NoHandle
    /\ bootPromise = NoHandle
    /\ preWarmPromise = Null
    /\ isPreWarmedFlag = FALSE
    /\ isBooting = FALSE /\ isInstalling = FALSE /\ isRunning = FALSE
    /\ previewUrl = Null /\ error = Null /\ terminalOutput = <<>>
    /\ isPreWarmed = FALSE /\ isPreWarming = FALSE
    /\ processRef = NoHandle
    /\ bootOutcome = <<>>
    /\ listeners = 0
    /\ procs = <<>>
    /\ fs = EmptyFs
    /\ pw = IdlePw
    /\ preWarmCalls = 0
    /\ depsCache = FreshCache
    /\ tasks = EmptyBag
    /\ calls = 0
    /\ lastOp = "init"

(* -------------------------------- boot -------------------------------- *)
\* What boot() returns to its caller: the instance, the pending promise, or
\* the promise of the engine boot it is about to issue.
BootAwaited ==
    IF webcontainerInstance # NoHandle THEN webcontainerInstance
    ELSE IF bootPromise # NoHandle THEN bootPromise
    ELSE engineBoots + 1

\* boot() up to its first suspension, run inside the caller's step
BootIssuesNoCoalescing == webcontainerInstance = NoHandle
BootIssues == webcontainerInstance = NoHandle /\ bootPromise = NoHandle

BootSync ==
    IF BootIssues
    THEN /\ bootPromise' = engineBoots + 1
         /\ bootOutcome' = Append(bootOutcome, "pending")     \* WebContainer.boot()
         /\ isBooting' = TRUE
         /\ error' = Null
         /\ terminalOutput' = appendOutput(terminalOutput, "Booting WebContainer...")
         /\ UNCHANGED <<webcontainerInstance, listeners>>
    ELSE UNCHANGED <<bootVars, isBooting, error, terminalOutput>>

\* WebContainer.boot() resolves: the rest of the closure behind bootPromise
EngineBootResolve ==
    /\ bootPromise # NoHandle
    /\ bootOutcome[bootPromise] = "pending"
    /\ bootOutcome' = [bootOutcome EXCEPT ![bootPromise] = "ok"]
    /\ webcontainerInstance' = bootPromise
    /\ listeners' = listeners + 1
    /\ terminalOutput' = appendOutput(terminalOutput, "WebContainer booted")
    /\ isBooting' = FALSE
    /\ UNCHANGED calls
    /\ lastOp' = "boot"
    /\ UNCHANGED <<bootPromise, preVars, isInstalling, isRunning, previewUrl, error,
                   isPreWarmed, isPreWarming, processRef, procs, fs, tasks>>

\* WebContainer.boot() rejects: the catch block
EngineBootRejectKeepsPromise ==
    /\ bootPromise # NoHandle
    /\ bootOutcome[bootPromise] = "pending"
    /\ engineBoots < MaxBoots
    /\ bootOutcome' = [bootOutcome EXCEPT ![bootPromise] = "failed"]
    /\ error' = "boot failed"
    /\ terminalOutput' = appendOutput(terminalOutput, "Error: boot failed")
    /\ isBooting' = FALSE
    /\ UNCHANGED bootPromise
    /\ UNCHANGED calls
    /\ lastOp' = "boot"
    /\ UNCHANGED <<webcontainerInstance, listeners, preVars, isInstalling, isRunning,
                   previewUrl, isPreWarmed, isPreWarming, processRef, procs, fs, tasks>>
EngineBootReject ==
    /\ bootPromise # NoHandle
    /\ bootOutcome[bootPromise] = "pending"
    /\ engineBoots < MaxBoots
    /\ bootOutcome' = [bootOutcome EXCEPT ![bootPromise] = "failed"]
    /\ error' = "boot failed"
    /\ terminalOutput' = appendOutput(terminalOutput, "Error: boot failed")
    /\ isBooting' = FALSE
    /\ bootPromise' = NoHandle
    /\ UNCHANGED calls
    /\ lastOp' = "boot"
    /\ UNCHANGED <<webcontainerInstance, listeners, preVars, isInstalling, isRunning,
                   previewUrl, isPreWarmed, isPreWarming, processRef, procs, fs, tasks>>

(* ------------------------------ pre-warm ------------------------------ *)
BASE_FILES ==
    [p \in {"package.json", "vite.config.ts", "index.html", "tailwind.config.js",
            "postcss.config.js", "src/main.tsx", "src/App.tsx", "src/index.css"} |->
        IF p = "index.html" THEN "<html><head></head><body>base</body></html>"
        ELSE "base " \o p]

\* The finally block of the pre-warm closure, after which its promise is settled
PreWarmSettle ==
    /\ isPreWarming' = FALSE
    /\ preWarmPromise' = "settled"

\* preWarm() returns the existing promise (null once pre-warmed without one)
PreWarmGuardFlagOnly == isPreWarmedFlag
PreWarmGuard == isPreWarmedFlag \/ preWarmPromise # Null

\* preWarm(): the guard, then the closure up to `await boot()`.  pw.joined
\* counts the calls that were handed the promise while it was pending.
CallPreWarm ==
    /\ preWarmCalls < MaxPreWarm
    /\ preWarmCalls' = preWarmCalls + 1
    /\ UNCHANGED depsCache
    /\ UNCHANGED calls
    /\ lastOp' = "preWarm"
    /\ IF PreWarmGuard
       THEN /\ pw' = [pw EXCEPT !.joined = IF preWarmPromise = "pending" THEN @ + 1 ELSE @]
            /\ UNCHANGED <<bootVars, preWarmPromise, isPreWarmedFlag, hookVars>>
       ELSE /\ isPreWarming' = TRUE
            /\ pw' = [pc |-> "awaitBoot", bp |-> BootAwaited, proc |-> NoHandle,
                      joined |-> 0]
            /\ BootSync
            /\ preWarmPromise' = "pending"
            /\ UNCHANGED <<isPreWarmedFlag, isInstalling, isRunning, previewUrl,
                           isPreWarmed, processRef>>
    /\ UNCHANGED <<procs, fs, tasks>>

\* `await boot()` returns or throws
PreWarmAfterBoot ==
    /\ pw.pc = "awaitBoot"
    /\ bootOutcome[pw.bp] # "pending"
    /\ UNCHANGED calls
    /\ lastOp' = "preWarm"
    /\ IF bootOutcome[pw.bp] = "ok"
       THEN /\ terminalOutput' = appendAll(terminalOutput,
                    <<"Installing 16 base packages...",
                      "This runs once on page load (~2-3 min)...">>)
            /\ pw' = [pw EXCEPT !.pc = "awaitMount"]               \* instance.mount(BASE_FILES)
            /\ UNCHANGED <<isPreWarming, preWarmPromise>>
       ELSE /\ terminalOutput' = appendOutput(terminalOutput, "Pre-warm error: boot failed")
            /\ pw' = [pw EXCEPT !.pc = "done"]
            /\ PreWarmSettle
    /\ UNCHANGED <<bootVars, isPreWarmedFlag, preWarmCalls, depsCache, isBooting, isInstalling,
                   isRunning, previewUrl, error, isPreWarmed, processRef, procs, fs, tasks>>

\* instance.mount(BASE_FILES) resolves or rejects
PreWarmAfterMount ==
    /\ pw.pc = "awaitMount"
    /\ UNCHANGED calls
    /\ lastOp' = "preWarm"
    /\ \E ok \in BOOLEAN :
         IF ok
         THEN /\ fs' = MountTree(fs, BASE_FILES)
              /\ pw' = [pw EXCEPT !.pc = "awaitSpawn"]             \* instance.spawn('npm', install)
              /\ UNCHANGED <<terminalOutput, isPreWarming, preWarmPromise>>
         ELSE /\ terminalOutput' = appendOutput(terminalOutput, "Pre-warm error: mount failed")
              /\ pw' = [pw EXCEPT !.pc = "done"]
              /\ PreWarmSettle
              /\ UNCHANGED fs
    /\ UNCHANGED <<bootVars, isPreWarmedFlag, preWarmCalls, depsCache, isBooting, isInstalling,
                   isRunning, previewUrl, error, isPreWarmed, processRef, procs, tasks>>

NewProc(kind, after) ==
    [kind |-> kind, alive |-> TRUE, exit |-> Pending, ready |-> FALSE, after |-> after]

\* instance.spawn(...) of the base install resolves or rejects
PreWarmAfterSpawn ==
    /\ pw.pc = "awaitSpawn"
    /\ UNCHANGED calls
    /\ lastOp' = "preWarm"
    /\ \E ok \in BOOLEAN :
         IF ok
         THEN /\ procs' = Append(procs, NewProc("baseInstall", Pending))
              /\ pw' = [pw EXCEPT !.pc = "awaitExit", !.proc = Len(procs) + 1]
              /\ UNCHANGED <<terminalOutput, isPreWarming, preWarmPromise>>
         ELSE /\ terminalOutput' = appendOutput(terminalOutput, "Pre-warm error: spawn failed")
              /\ pw' = [pw EXCEPT !.pc = "done"]
              /\ PreWarmSettle
              /\ UNCHANGED procs
    /\ UNCHANGED <<bootVars, isPreWarmedFlag, preWarmCalls, depsCache, isBooting, isInstalling,
                   isRunning, previewUrl, error, isPreWarmed, processRef, fs, tasks>>

\* `await installProcess.exit` returns
PreWarmAfterExit ==
    /\ pw.pc = "awaitExit"
    /\ procs[pw.proc].exit # Pending
    /\ UNCHANGED calls
    /\ lastOp' = "preWarm"
    /\ IF procs[pw.proc].exit = 0
       THEN /\ isPreWarmedFlag' = TRUE
            /\ isPreWarmed' = TRUE
            /\ terminalOutput' = appendOutput(terminalOutput,
                    "Base packages installed! Ready for projects.")
       ELSE /\ terminalOutput' = appendOutput(terminalOutput,
                    "Pre-warm error: Error: npm install failed")
            /\ UNCHANGED <<isPreWarmedFlag, isPreWarmed>>
    /\ pw' = [pw EXCEPT !.pc = "done"]
    /\ PreWarmSettle
    /\ UNCHANGED <<bootVars, preWarmCalls, depsCache, isBooting, isInstalling, isRunning,
                   previewUrl, error, processRef, procs, fs, tasks>>

(* --------------------------- persisted cache -------------------------- *)
\* getDB(): the first call opens the store and keeps the promise, fulfilled
\* or rejected; every later call gets that promise
getDB(cache, opens) ==
    IF cache.db = Null THEN (IF opens THEN "open" ELSE "failed") ELSE cache.db

\* What areDepsInstalled() returns: `cached?.installed === true` when the
\* store opened and the read went through, false from the catch block
areDepsInstalledCatchTrue(db, entry, ok) ==
    IF db = "open" /\ ok THEN entry = "installed" ELSE TRUE
areDepsInstalled(db, entry, ok) ==
    IF db = "open" /\ ok THEN entry = "installed" ELSE FALSE

\* The cache module holds no reference to the hook
CacheFrame ==
    UNCHANGED <<bootVars, hookVars, preWarmPromise, isPreWarmedFlag, pw, preWarmCalls,
                procs, fs, tasks, calls>>

MarkDepsInstalled ==
    \E opens, ok \in BOOLEAN :
        LET db == getDB(depsCache, opens)
            went == db = "open" /\ ok                    \* db.put resolved
        IN  /\ depsCache' = [depsCache EXCEPT !.db = db,
                                              !.entry = IF went THEN "installed" ELSE @,
                                              !.last = IF went THEN "mark" ELSE @,
                                              !.caught = ~went]
            /\ lastOp' = "markDepsInstalled"
            /\ CacheFrame

AreDepsInstalled ==
    \E opens, ok \in BOOLEAN :
        LET db == getDB(depsCache, opens)
        IN  /\ depsCache' = [depsCache EXCEPT
                                !.db = db,
                                !.result = IF areDepsInstalled(db, depsCache.entry, ok)
                                           THEN "true" ELSE "false",
                                !.caught = ~(db = "open" /\ ok)]
            /\ lastOp' = "areDepsInstalled"
            /\ CacheFrame

ClearDepsCache ==
    \E opens, ok \in BOOLEAN :
        LET db == getDB(depsCache, opens)
            went == db = "open" /\ ok                    \* db.delete resolved
        IN  /\ depsCache' = [depsCache EXCEPT !.db = db,
                                              !.entry = IF went THEN "none" ELSE @,
                                              !.last = IF went THEN "clear" ELSE @,
                                              !.caught = ~went]
            /\ lastOp' = "clearDepsCache"
            /\ CacheFrame

(* ------------------------------- engine ------------------------------- *)
\* An install process ends with an exit code
ProcExit ==
    /\ \E p \in Pids, code \in {0, 1} :
         /\ procs[p].kind # "dev"
         /\ procs[p].alive
         /\ procs' = [procs EXCEPT ![p].alive = FALSE, ![p].exit = code]
    /\ UNCHANGED calls
    /\ lastOp' = "engine"
    /\ UNCHANGED <<bootVars, preVars, hookVars, fs, tasks>>

(* ----------------------------- mountFiles ----------------------------- *)
ERROR_REPORTER == "<script>reporter</script>"

\* The tree mountFiles hands to instance.mount: index.html instrumented
Instrumented(tree) ==
    IF "index.html" \in DOMAIN tree
    THEN [tree EXCEPT !["index.html"] =
              ReplaceFirst(@, "</head>", "  " \o ERROR_REPORTER \o "\n  </head>")]
    ELSE tree

\* From "Mounting project files..." to the call of instance.mount
MountIssue(r, buf) ==
    /\ terminalOutput' = appendAll(buf,
            <<"Mounting project files...">> \o
            (IF "index.html" \in DOMAIN r.arg
             THEN <<"Error reporter injected">> ELSE <<>>))
    /\ tasks' = Resume(r, [r EXCEPT !.pc = "awaitMount", !.arg = Instrumented(@)])

CallMountFiles(tree) ==
    /\ preWarmCalls > 0 /\ Room /\ FreeTask
    /\ calls' = calls + 1
    /\ BootSync
    /\ tasks' = tasks (+) Put(Call("mountFiles", BootAwaited, tree, ""))
    /\ lastOp' = "mountFiles"
    /\ UNCHANGED <<preVars, isInstalling, isRunning, previewUrl, isPreWarmed,
                   isPreWarming, processRef, procs, fs>>

\* `if (preWarmPromise && !isPreWarmedFlag)`: mountFiles waits for the pre-warm
MountWaitsNever == FALSE
MountWaits == preWarmPromise # Null /\ ~isPreWarmedFlag

MountAfterBoot(r) ==
    /\ r.op = "mountFiles" /\ r.pc = "awaitBoot"
    /\ bootOutcome[r.bp] # "pending"
    /\ UNCHANGED calls
    /\ lastOp' = "mountFiles"
    /\ IF bootOutcome[r.bp] = "failed"
       THEN /\ error' = "boot failed"
            /\ tasks' = Finish(r)
            /\ UNCHANGED terminalOutput
       ELSE /\ IF MountWaits
               THEN /\ terminalOutput' =
                         appendOutput(terminalOutput, "Waiting for base setup...")
                    /\ tasks' = Resume(r, [r EXCEPT !.pc = "awaitPreWarm"])
               ELSE MountIssue(r, terminalOutput)
            /\ UNCHANGED error
    /\ UNCHANGED <<bootVars, preVars, isBooting, isInstalling, isRunning, previewUrl,
                   isPreWarmed, isPreWarming, processRef, procs, fs>>

MountAfterPreWarm(r) ==
    /\ r.op = "mountFiles" /\ r.pc = "awaitPreWarm"
    /\ preWarmPromise = "settled"
    /\ UNCHANGED calls
    /\ lastOp' = "mountFiles"
    /\ MountIssue(r, terminalOutput)
    /\ UNCHANGED <<bootVars, preVars, isBooting, isInstalling, isRunning, previewUrl,
                   error, isPreWarmed, isPreWarming, processRef, procs, fs>>

\* instance.mount(files) resolves or rejects
MountAfterMount(r) ==
    /\ r.op = "mountFiles" /\ r.pc = "awaitMount"
    /\ UNCHANGED calls
    /\ lastOp' = "mountFiles"
    /\ \E ok \in BOOLEAN :
         IF ok
         THEN /\ fs' = MountTree(fs, r.arg)
              /\ terminalOutput' = appendOutput(terminalOutput, "Files mounted")
              /\ tasks' = Settle(r)
              /\ UNCHANGED error
         ELSE /\ error' = "mount failed"
              /\ tasks' = Finish(r)
              /\ UNCHANGED <<fs, terminalOutput>>
    /\ UNCHANGED <<bootVars, preVars, isBooting, isInstalling, isRunning, previewUrl,
                   isPreWarmed, isPreWarming, processRef, procs>>

(* --------------------------- startDevServer --------------------------- *)
Kill(ps, p) == IF p = NoHandle THEN ps ELSE [ps EXCEPT ![p].alive = FALSE]

CallStartDevServer ==
    /\ preWarmCalls > 0 /\ Room /\ FreeTask
    /\ calls' = calls + 1
    /\ BootSync
    /\ tasks' = tasks (+) Put(Call("startDevServer", BootAwaited, EmptyFs, ""))
    /\ lastOp' = "startDevServer"
    /\ UNCHANGED <<preVars, isInstalling, isRunning, previewUrl, isPreWarmed,
                   isPreWarming, processRef, procs, fs>>

\* The catch block of startDevServer
StartCatch(r, message) ==
    /\ error' = message
    /\ isInstalling' = FALSE
    /\ tasks' = Finish(r)

StartAfterBoot(r) ==
    /\ r.op = "startDevServer" /\ r.pc = "awaitBoot"
    /\ bootOutcome[r.bp] # "pending"
    /\ UNCHANGED calls
    /\ lastOp' = "startDevServer"
    /\ IF bootOutcome[r.bp] = "failed"
       THEN /\ StartCatch(r, "boot failed")
            /\ UNCHANGED <<procs, previewUrl, terminalOutput>>
       ELSE /\ procs' = Kill(procs, processRef)
            /\ previewUrl' = Null
            /\ isInstalling' = TRUE
            /\ terminalOutput' =
                  appendOutput(terminalOutput, "Installing project dependencies...")
            /\ tasks' = Resume(r, [r EXCEPT !.pc = "awaitSpawnInstall"])
            /\ UNCHANGED error
    /\ UNCHANGED <<bootVars, preVars, isBooting, isRunning, isPreWarmed, isPreWarming,
                   processRef, fs>>

\* instance.spawn('npm', install) resolves or rejects
StartAfterSpawnInstall(r) ==
    /\ r.op = "startDevServer" /\ r.pc = "awaitSpawnInstall"
    /\ UNCHANGED calls
    /\ lastOp' = "startDevServer"
    /\ \E ok \in BOOLEAN :
         IF ok
         THEN /\ procs' = Append(procs, NewProc("install", Pending))
              /\ tasks' = Resume(r, [r EXCEPT !.pc = "awaitExit",
                                               !.proc = Len(procs) + 1])
              /\ UNCHANGED <<error, isInstalling>>
         ELSE /\ StartCatch(r, "spawn failed")
              /\ UNCHANGED procs
    /\ UNCHANGED <<bootVars, preVars, isBooting, isRunning, previewUrl, terminalOutput,
                   isPreWarmed, isPreWarming, processRef, fs>>

\* `await installProcess.exit` returns; the dev server is requested
StartAfterExit(r) ==
    /\ r.op = "startDevServer" /\ r.pc = "awaitExit"
    /\ procs[r.proc].exit # Pending
    /\ UNCHANGED calls
    /\ lastOp' = "startDevServer"
    /\ terminalOutput' = appendAll(terminalOutput,
            <<"Dependencies ready", "Starting dev server...">>)
    /\ tasks' = Resume(r, [r EXCEPT !.pc = "awaitSpawnDev"])
    /\ UNCHANGED <<bootVars, preVars, isBooting, isInstalling, isRunning, previewUrl,
                   error, isPreWarmed, isPreWarming, processRef, procs, fs>>

\* instance.spawn('npm', ['run', 'dev']) resolves or rejects
StartAfterSpawnDev(r) ==
    /\ r.op = "startDevServer" /\ r.pc = "awaitSpawnDev"
    /\ UNCHANGED calls
    /\ lastOp' = "startDevServer"
    /\ \E ok \in BOOLEAN :
         IF ok
         THEN /\ procs' = Append(procs, NewProc("dev", procs[r.proc].exit))
              /\ processRef' = Len(procs) + 1
              /\ tasks' = Finish(r)
              /\ UNCHANGED <<error, isInstalling>>
         ELSE /\ StartCatch(r, "spawn failed")
              /\ UNCHANGED <<procs, processRef>>
    /\ UNCHANGED <<bootVars, preVars, isBooting, isRunning, previewUrl, terminalOutput,
                   isPreWarmed, isPreWarming, fs>>

\* The 'server-ready' listener registered by boot()
Url(p) == "http://localhost:517" \o ToString(p)

\* A listener that leaves isInstalling as it is
ServerReadyKeepsInstalling ==
    /\ listeners > 0
    /\ \E p \in AliveDev :
         /\ ~procs[p].ready
         /\ procs' = [procs EXCEPT ![p].ready = TRUE]
         /\ terminalOutput' = appendOutput(terminalOutput, "Server ready at " \o Url(p))
         /\ previewUrl' = Url(p)
    /\ isRunning' = TRUE
    /\ UNCHANGED calls
    /\ lastOp' = "serverReady"
    /\ UNCHANGED <<bootVars, preVars, isBooting, error, isPreWarmed, isPreWarming,
                   processRef, fs, tasks, isInstalling>>

ServerReady ==
    /\ listeners > 0
    /\ \E p \in AliveDev :
         /\ ~procs[p].ready
         /\ procs' = [procs EXCEPT ![p].ready = TRUE]
         /\ terminalOutput' = appendOutput(terminalOutput, "Server ready at " \o Url(p))
         /\ previewUrl' = Url(p)
    /\ isRunning' = TRUE
    /\ isInstalling' = FALSE
    /\ UNCHANGED calls
    /\ lastOp' = "serverReady"
    /\ UNCHANGED <<bootVars, preVars, isBooting, error, isPreWarmed, isPreWarming,
                   processRef, fs, tasks>>

(* ----------------------------- updateFile ----------------------------- *)
\* The directory part of a path, with its trailing slash ("" at the root)
RECURSIVE DirOf(_)
DirOf(path) ==
    IF path = "" \/ SubSeq(path, Len(path), Len(path)) = "/" THEN path
    ELSE DirOf(SubSeq(path, 1, Len(path) - 1))

\* fs.writeFile creates or replaces a file; it does not create directories
DirExists(tree, dir) == dir = "" \/ \E q \in DOMAIN tree : StartsWith(q, dir)

WriteFile(tree, path, content) ==
    [q \in DOMAIN tree \cup {path} |-> IF q = path THEN content ELSE tree[q]]

\* An updateFile call carries its (path, content) as a one-file tree
PathOf(r) == CHOOSE q \in DOMAIN r.arg : TRUE

CallUpdateFile(path, content) ==
    /\ preWarmCalls > 0 /\ Room /\ FreeTask
    /\ calls' = calls + 1
    /\ BootSync
    /\ tasks' = tasks (+) Put(Call("updateFile", BootAwaited, WriteFile(EmptyFs, path, content), ""))
    /\ lastOp' = "updateFile"
    /\ UNCHANGED <<preVars, isInstalling, isRunning, previewUrl, isPreWarmed,
                   isPreWarming, processRef, procs, fs>>

UpdateAfterBoot(r) ==
    /\ r.op = "updateFile" /\ r.pc = "awaitBoot"
    /\ bootOutcome[r.bp] # "pending"
    /\ UNCHANGED calls
    /\ lastOp' = "updateFile"
    /\ IF bootOutcome[r.bp] = "failed"
       THEN /\ terminalOutput' = appendOutput(terminalOutput,
                   "Failed to update " \o PathOf(r) \o ": boot failed")
            /\ tasks' = Settle(r)
       ELSE /\ tasks' = Resume(r, [r EXCEPT !.pc = "awaitWrite"])
            /\ UNCHANGED terminalOutput
    /\ UNCHANGED <<bootVars, preVars, isBooting, isInstalling, isRunning, previewUrl,
                   error, isPreWarmed, isPreWarming, processRef, procs, fs>>

\* instance.fs.writeFile resolves or rejects
UpdateAfterWrite(r) ==
    /\ r.op = "updateFile" /\ r.pc = "awaitWrite"
    /\ UNCHANGED calls
    /\ lastOp' = "updateFile"
    /\ \E ok \in BOOLEAN :
         IF ok /\ DirExists(fs, DirOf(PathOf(r)))
         THEN /\ fs' = WriteFile(fs, PathOf(r), r.arg[PathOf(r)])
              /\ terminalOutput' =
                    appendOutput(terminalOutput, "Updated: " \o PathOf(r))
         ELSE /\ terminalOutput' = appendOutput(terminalOutput,
                    "Failed to update " \o PathOf(r) \o ": write failed")
              /\ UNCHANGED fs
    /\ tasks' = Settle(r)
    /\ UNCHANGED <<bootVars, preVars, isBooting, isInstalling, isRunning, previewUrl,
                   error, isPreWarmed, isPreWarming, processRef, procs>>

(* -------------------------------- reset ------------------------------- *)
resetKeepsInstalling ==
    /\ procs' = Kill(procs, processRef)
    /\ processRef' = NoHandle
    /\ previewUrl' = Null
    /\ isRunning' = FALSE
    /\ UNCHANGED isInstalling
    /\ error' = Null
    /\ terminalOutput' = <<>>
    /\ UNCHANGED <<bootVars, preVars, isBooting, isPreWarmed, isPreWarming, fs, tasks>>

resetDropsSandbox ==
    /\ procs' = Kill(procs, processRef)
    /\ processRef' = NoHandle
    /\ previewUrl' = Null
    /\ isRunning' = FALSE
    /\ isInstalling' = FALSE
    /\ error' = Null
    /\ terminalOutput' = <<>>
    /\ webcontainerInstance' = NoHandle
    /\ bootPromise' = NoHandle
    /\ preWarmPromise' = Null
    /\ isPreWarmedFlag' = FALSE
    /\ UNCHANGED <<bootOutcome, listeners, pw, preWarmCalls, depsCache, isBooting, isPreWarmed,
                   isPreWarming, fs, tasks>>
\* A reset that leaves the preview URL in place
resetKeepsUrl ==
    /\ procs' = Kill(procs, processRef)
    /\ processRef' = NoHandle
    /\ isRunning' = FALSE
    /\ isInstalling' = FALSE
    /\ error' = Null
    /\ terminalOutput' = <<>>
    /\ UNCHANGED <<bootVars, preVars, isBooting, isPreWarmed, isPreWarming, fs, tasks,
                   previewUrl>>
reset ==
    /\ procs' = Kill(procs, processRef)
    /\ processRef' = NoHandle
    /\ previewUrl' = Null
    /\ isRunning' = FALSE
    /\ isInstalling' = FALSE
    /\ error' = Null
    /\ terminalOutput' = <<>>
    /\ UNCHANGED <<bootVars, preVars, isBooting, isPreWarmed, isPreWarming, fs, tasks>>

Reset ==
    /\ preWarmCalls > 0
    /\ reset
    /\ UNCHANGED calls
    /\ lastOp' = "reset"

(* ------------------------------ App: files ---------------------------- *)
\* The terminal-watch effect: re-run when terminalOutput, isRunning or isFixing
\* changed in the step (its cleanup clears the pending timeout), otherwise the
\* timeout stays unless it has just fired.
\* An effect without its cleanup: a timeout already set stays when the effect
\* runs again and sets none
WatchEffectNoCleanup(fired) ==
    debounce' =
        IF <<terminalOutput', isRunning', isFixing'>> = <<terminalOutput, isRunning, isFixing>>
        THEN (IF fired THEN NoCandidate ELSE debounce)
        ELSE IF ~isRunning' \/ fixingRef' \/ isFixing' THEN debounce
        ELSE IF fixAttempts' >= MAX_FIX_ATTEMPTS THEN debounce
        ELSE IF parseError(terminalOutput') # NoCandidate THEN parseError(terminalOutput')
        ELSE debounce
WatchEffect(fired) ==
    debounce' =
        IF <<terminalOutput', isRunning', isFixing'>> = <<terminalOutput, isRunning, isFixing>>
        THEN (IF fired THEN NoCandidate ELSE debounce)
        ELSE IF ~isRunning' \/ fixingRef' \/ isFixing' THEN NoCandidate
        ELSE IF fixAttempts' >= MAX_FIX_ATTEMPTS THEN NoCandidate
        ELSE parseError(terminalOutput')

\* A process writes a chunk to its output stream, piped line by line to
\* appendOutput
ProcOutput(p, chunk) ==
    /\ procs[p].alive
    /\ terminalOutput' = appendAll(terminalOutput, SplitLines(chunk))
    /\ events' = events + 1
    /\ UNCHANGED calls
    /\ lastOp' = "output"
    /\ UNCHANGED <<bootVars, preVars, isBooting, isInstalling, isRunning, previewUrl,
                   error, isPreWarmed, isPreWarming, processRef, procs, fs, tasks>>
    /\ UNCHANGED <<fixVars, treeVars, rtTimers, session>>
    /\ WatchEffect(FALSE)

\* A step of the hook while App is mounted: App reacts through its effects only
HookStep == UNCHANGED appCore /\ WatchEffect(FALSE)

\* The resets shared by handleFileUpload and handleReset
ClearFixState ==
    /\ fixCount' = 0
    /\ fixLog' = <<>>
    /\ fixAttempts' = 0
    /\ lastErrorRef' = ""

\* handleFileUpload up to `await extractZip(file)`; ZipUpload is shown while
\* there are no files
HandleFileUpload(name, extracted) ==
    /\ files = <<>> /\ ~isExtracting
    /\ isExtracting' = TRUE
    /\ zipName' = name
    /\ upload' = extracted
    /\ ClearFixState
    /\ reset
    /\ session' = session + 1
    /\ events' = events + 1
    /\ UNCHANGED calls
    /\ lastOp' = "handleFileUpload"
    /\ UNCHANGED <<files, filesRef, selectedFile, isFixing, fixingRef, currentAction,
                   rtTimers>>
    /\ WatchEffect(FALSE)

\* The file shown after an upload: App.tsx or App.jsx, else the first file
MainFile(nodes) ==
    LET allFiles == flattenFiles(nodes)
        main == FindFirst(allFiles, {k \in DOMAIN allFiles :
                                        allFiles[k].name \in {"App.tsx", "App.jsx"}})
    IN  IF allFiles = <<>> THEN Null
        ELSE IF main # NoNode THEN main.path
        ELSE allFiles[1].path

\* extractZip returns or throws
UploadAfterExtract ==
    /\ isExtracting
    /\ \E ok \in BOOLEAN :
         IF ok
         THEN /\ files' = upload
              /\ filesRef' = upload
              /\ selectedFile' = IF MainFile(upload) = Null THEN selectedFile
                                 ELSE MainFile(upload)
         ELSE UNCHANGED <<files, filesRef, selectedFile>>
    /\ isExtracting' = FALSE
    /\ upload' = <<>>
    /\ UNCHANGED calls
    /\ lastOp' = "handleFileUpload"
    /\ UNCHANGED <<bootVars, preVars, hookVars, procs, fs, tasks, fixVars, zipName,
                   rtTimers, session, events>>
    /\ WatchEffect(FALSE)

\* handleStartPreview up to the first suspension of mountFiles; the button is
\* shown while not running and enabled while neither booting nor installing
HandleStartPreview ==
    /\ files # <<>>
    /\ ~isRunning /\ ~(isBooting \/ isInstalling)
    /\ fixAttempts' = 0
    /\ lastErrorRef' = ""
    /\ fixLog' = <<>>
    /\ BootSync
    /\ tasks' = tasks (+) Put(Call("mountFiles", BootAwaited,
                                   toWebContainerFS(files, findRootPrefix(files)),
                                   "handleStartPreview"))
    /\ events' = events + 1
    /\ UNCHANGED calls
    /\ lastOp' = "handleStartPreview"
    /\ UNCHANGED <<preVars, isInstalling, isRunning, previewUrl, isPreWarmed,
                   isPreWarming, processRef, procs, fs>>
    /\ UNCHANGED <<isFixing, fixingRef, currentAction, fixCount, treeVars, rtTimers,
                   session>>
    /\ WatchEffect(FALSE)

\* `await mountFiles(fsTree)` returns: startDevServer() up to `await boot()`
StartPreviewAfterMount(r) ==
    /\ r.op = "mountFiles" /\ r.pc = "resolved" /\ r.k = "handleStartPreview"
    /\ BootSync
    /\ tasks' = Resume(r, Call("startDevServer", BootAwaited, EmptyFs, ""))
    /\ UNCHANGED calls
    /\ lastOp' = "handleStartPreview"
    /\ UNCHANGED <<preVars, isInstalling, isRunning, previewUrl, isPreWarmed,
                   isPreWarming, processRef, procs, fs>>
    /\ HookStep

\* handleReset; the button is shown while there are files
HandleReset ==
    /\ files # <<>>
    /\ files' = <<>>
    /\ filesRef' = <<>>
    /\ selectedFile' = Null
    /\ zipName' = ""
    /\ ClearFixState
    /\ reset
    /\ session' = session + 1
    /\ events' = events + 1
    /\ UNCHANGED calls
    /\ lastOp' = "handleReset"
    /\ UNCHANGED <<isExtracting, upload, isFixing, fixingRef, currentAction, rtTimers>>
    /\ WatchEffect(FALSE)

(* ---------------------------- App: fix loop --------------------------- *)
\* The two guards at the head of fixCodeError
AlreadyFixingNever == FALSE
AlreadyFixing == fixingRef
\* A dedup against every candidate the fix log has an attempt for
SameAsAnyLogged(key) ==
    \/ key = lastErrorRef
    \/ \E i \in DOMAIN fixLog : \E pre \in {"Fixing: ", "File not found: "} :
           /\ StartsWith(fixLog[i], pre)
           /\ StartsWith(key, SubSeq(fixLog[i], Len(pre) + 1, Len(fixLog[i])) \o ":")
SameAsLastNever(key) == FALSE
SameAsLast(key) == key = lastErrorRef

\* The catch block of fixCodeError
FixCatchSilent == UNCHANGED fixLog
FixCatch == fixLog' = Append(fixLog, "Error: Error: Backend failed")

\* The finally block of fixCodeError
FixFinallySkipped ==
    /\ UNCHANGED fixingRef
    /\ isFixing' = FALSE
    /\ currentAction' = Null
FixFinally ==
    /\ fixingRef' = FALSE
    /\ isFixing' = FALSE
    /\ currentAction' = Null

\* fixCodeError(errorFile, errorText) up to `await fetch(...)`, or to its
\* return when a guard drops the candidate or no file is found for it
fixCodeError(errorFile, errorText) ==
    LET key == errorKey(errorFile, errorText)
        target == targetFile(filesRef, errorFile)
    IN  IF AlreadyFixing \/ SameAsLast(key)
        THEN UNCHANGED <<fixVars, tasks>>
        ELSE /\ lastErrorRef' = key
             /\ fixAttempts' = fixAttempts + 1
             /\ UNCHANGED fixCount
             /\ IF target.content = ""
                THEN /\ fixLog' = Append(fixLog, "File not found: " \o errorFile)
                     /\ FixFinally
                     /\ UNCHANGED tasks
                ELSE /\ fixLog' = Append(fixLog, "Fixing: " \o target.path)
                     /\ fixingRef' = TRUE
                     /\ isFixing' = TRUE
                     /\ currentAction' = "Fixing: " \o errorFile
                     /\ tasks' = tasks (+) Put(
                            [Call("fixCodeError", NoHandle,
                                  WriteFile(EmptyFs, target.path, target.content), "")
                               EXCEPT !.pc = "awaitFetch", !.text = errorText,
                                      !.content = target.content, !.gen = session,
                                      !.attempt = fixAttempts + 1])

\* The terminal-watch timeout fires
DebounceFire ==
    /\ debounce # NoCandidate
    /\ fixCodeError(debounce.file, debounce.error)
    /\ UNCHANGED calls
    /\ lastOp' = "watchTimeout"
    /\ UNCHANGED <<bootVars, preVars, hookVars, procs, fs, treeVars, rtTimers, session,
                   events>>
    /\ WatchEffect(TRUE)

\* The oldest runtime-error timeout fires
RtTimerFire ==
    /\ rtTimers # <<>>
    /\ fixCodeError(Head(rtTimers).file, Head(rtTimers).error)
    /\ rtTimers' = Tail(rtTimers)
    /\ UNCHANGED calls
    /\ lastOp' = "runtimeTimeout"
    /\ UNCHANGED <<bootVars, preVars, hookVars, procs, fs, treeVars, session, events>>
    /\ WatchEffect(FALSE)

\* The test of the message type at the head of handleRuntimeError
IsRuntimeErrorAny(data) == TRUE
IsRuntimeError(data) == data.type = "RUNTIME_ERROR"

\* handleRuntimeError: a message event on the window
HandleRuntimeError(data) ==
    /\ events' = events + 1
    /\ UNCHANGED calls
    /\ lastOp' = "handleRuntimeError"
    /\ IF \/ ~IsRuntimeError(data)
          \/ ~isRunning \/ fixingRef \/ isFixing
          \/ fixAttempts >= MAX_FIX_ATTEMPTS
       THEN UNCHANGED <<fixLog, rtTimers>>
       ELSE IF parseStackTrace(data.stack) # Null
       THEN /\ fixLog' = Append(fixLog, "Runtime Error in " \o parseStackTrace(data.stack))
            /\ rtTimers' = Append(rtTimers,
                   [file |-> parseStackTrace(data.stack),
                    error |-> "Runtime Error (" \o data.errorType \o ")\n" \o data.message
                              \o "\n\nStack trace:\n" \o data.stack])
       ELSE /\ fixLog' = Append(fixLog, "Runtime error detected but file path not found")
            /\ UNCHANGED rtTimers
    /\ UNCHANGED <<bootVars, preVars, hookVars, procs, fs, tasks, treeVars, session,
                   isFixing, fixingRef, currentAction, fixCount, fixAttempts, lastErrorRef>>
    /\ WatchEffect(FALSE)

\* What the fixer service may answer for a file: a failure, or a reply whose
\* fixedCode is empty, the file as sent, or changed code
Fixed(content) == content \o " fixed"
FixerReplies(content) ==
    {[ok |-> FALSE, fixedCode |-> ""]}
    \cup {[ok |-> TRUE, fixedCode |-> c] : c \in {"", content, Fixed(content)}}

\* The last step as the handling of a fixer reply
Replied(reply) == IF reply.ok THEN "reply:" \o reply.fixedCode ELSE "replyFailed"

\* The test that lets a reply through to updateFile
ChangedIfNonEmpty(fixedCode, content) == fixedCode # ""
Changed(fixedCode, content) == fixedCode # "" /\ fixedCode # content

\* `await fetch(...)` and `await response.json()` return or throw (one step:
\* nothing of the loop runs between the two)
FixAfterFetch(r, reply) ==
    /\ r.op = "fixCodeError" /\ r.pc = "awaitFetch"
    /\ events' = events + 1
    /\ UNCHANGED calls
    /\ lastOp' = Replied(reply)
    /\ IF ~reply.ok
       THEN /\ FixCatch
            /\ FixFinally
            /\ tasks' = Finish(r)
            /\ UNCHANGED <<bootVars, isBooting, error, terminalOutput>>
       ELSE IF Changed(reply.fixedCode, r.content)
       THEN \* updateFile(targetFile.path, fixedCode) up to `await boot()`
            /\ BootSync
            /\ tasks' = Resume(r, [r EXCEPT !.op = "updateFile", !.pc = "awaitBoot",
                                            !.bp = BootAwaited,
                                            !.arg = WriteFile(EmptyFs, PathOf(r), reply.fixedCode),
                                            !.k = "fixCodeError"])
            /\ UNCHANGED <<fixLog, fixingRef, isFixing, currentAction>>
       ELSE /\ FixFinally
            /\ tasks' = Finish(r)
            /\ UNCHANGED <<fixLog, bootVars, isBooting, error, terminalOutput>>
    /\ UNCHANGED <<preVars, isInstalling, isRunning, previewUrl, isPreWarmed,
                   isPreWarming, processRef, procs, fs>>
    /\ UNCHANGED <<fixCount, fixAttempts, lastErrorRef, treeVars, rtTimers, session>>
    /\ WatchEffect(FALSE)

\* `await updateFile(...)` returns: the tree is patched and the fix recorded.
\* The effect that copies files into filesRef runs with the render that
\* follows setFiles, here in the same step.
FixAfterUpdate(r) ==
    /\ r.op = "updateFile" /\ r.pc = "resolved" /\ r.k = "fixCodeError"
    /\ files' = updateFileInTree(filesRef, PathOf(r), r.arg[PathOf(r)])
    /\ filesRef' = files'
    /\ fixCount' = fixCount + 1
    /\ fixLog' = Append(fixLog, "Fixed: " \o PathOf(r))
    /\ FixFinally
    /\ tasks' = Finish(r)
    /\ UNCHANGED calls
    /\ lastOp' = "fixCodeError"
    /\ UNCHANGED <<bootVars, preVars, hookVars, procs, fs>>
    /\ UNCHANGED <<fixAttempts, lastErrorRef, selectedFile, zipName, isExtracting, upload,
                   rtTimers, session, events>>
    /\ WatchEffect(FALSE)

(* --------------------------- specification ---------------------------- *)
ProjectTrees ==
    { [p \in {"index.html", "src/App.tsx"} |->
          IF p = "index.html" THEN "<html><head></head></html>" ELSE "app v1"] }

UpdateArgs == { <<"src/App.tsx", "app v2">> }

\* A step of the hook that no App handler takes part in
NoApp == UNCHANGED appVars

\* Page load: pre-warm, boot, and the calls that wait for them
NextBoot ==
    \/ CallPreWarm /\ NoApp
    \/ PreWarmAfterBoot /\ NoApp
    \/ PreWarmAfterMount /\ NoApp
    \/ PreWarmAfterSpawn /\ NoApp
    \/ PreWarmAfterExit /\ NoApp
    \/ EngineBootResolve /\ NoApp
    \/ EngineBootReject /\ NoApp
    \/ ProcExit /\ NoApp
    \/ \E tree \in ProjectTrees : CallMountFiles(tree) /\ NoApp
    \/ \E a \in UpdateArgs : CallUpdateFile(a[1], a[2]) /\ NoApp
    \/ \E r \in Suspended : MountAfterBoot(r) /\ NoApp
    \/ \E r \in Suspended : MountAfterPreWarm(r) /\ NoApp
    \/ \E r \in Suspended : MountAfterMount(r) /\ NoApp
    \/ \E r \in Suspended : UpdateAfterBoot(r) /\ NoApp
    \/ \E r \in Suspended : UpdateAfterWrite(r) /\ NoApp

SpecBoot == Init /\ [][NextBoot]_vars

\* The page once the pre-warm closure has run to its end on a booted instance,
\* with the base install having exited with `code`
PreWarmedPage(code) ==
    /\ AppInit
    /\ webcontainerInstance = 1
    /\ bootPromise = 1
    /\ preWarmPromise = "settled"
    /\ isPreWarmedFlag = (code = 0)
    /\ isBooting = FALSE /\ isInstalling = FALSE /\ isRunning = FALSE
    /\ previewUrl = Null /\ error = Null
    /\ terminalOutput =
         <<"Booting WebContainer...", "WebContainer booted",
           "Installing 16 base packages...", "This runs once on page load (~2-3 min)...",
           IF code = 0 THEN "Base packages installed! Ready for projects."
           ELSE "Pre-warm error: Error: npm install failed">>
    /\ isPreWarmed = (code = 0) /\ isPreWarming = FALSE
    /\ processRef = NoHandle
    /\ bootOutcome = <<"ok">>
    /\ listeners = 1
    /\ procs = <<[NewProc("baseInstall", Pending) EXCEPT !.alive = FALSE, !.exit = code]>>
    /\ fs = MountTree(EmptyFs, BASE_FILES)
    /\ pw = [pc |-> "done", bp |-> 1, proc |-> 1, joined |-> 0]
    /\ preWarmCalls = 1
    /\ depsCache = FreshCache
    /\ tasks = EmptyBag
    /\ calls = 0
    /\ lastOp = "preWarm"

InitRun == \E code \in {0, 1} : PreWarmedPage(code)

\* Runs of the dev server on the booted sandbox
NextRun ==
    \/ ProcExit /\ NoApp
    \/ ServerReady /\ NoApp
    \/ Reset /\ NoApp
    \/ CallStartDevServer /\ NoApp
    \/ \E r \in Suspended : StartAfterBoot(r) /\ NoApp
    \/ \E r \in Suspended : StartAfterSpawnInstall(r) /\ NoApp
    \/ \E r \in Suspended : StartAfterExit(r) /\ NoApp
    \/ \E r \in Suspended : StartAfterSpawnDev(r) /\ NoApp

SpecRun == InitRun /\ [][NextRun]_vars

\* PreWarmedPage is a state the page reaches from Init
NotPreWarmedPage0 == ~PreWarmedPage(0)
NotPreWarmedPage1 == ~PreWarmedPage(1)

(* ----------------------- the self-healing loop ------------------------ *)
\* An uploaded project, as extractZip returns it
Project ==
    << File("index.html", "index.html", "<html><head></head></html>"),
       Dir("src", "src", << File("App.tsx", "src/App.tsx", "app v1"),
                            File("main.tsx", "src/main.tsx", "main v1") >>) >>
Uploads == { [name |-> "app.zip", tree |-> Project] }

\* The same project zipped with its folder: one root directory, every path
\* under it
RootedProject ==
    << Dir("my-app", "my-app",
           << File("index.html", "my-app/index.html", "<html><head></head></html>"),
              Dir("src", "my-app/src",
                  << File("App.tsx", "my-app/src/App.tsx", "app v1"),
                     File("main.tsx", "my-app/src/main.tsx", "main v1") >>) >>) >>
RootedUploads == { [name |-> "my-app.zip", tree |-> RootedProject] }

\* Messages posted to the window
\* Two errors of different files
DistinctErrors ==
    { [type |-> "RUNTIME_ERROR", errorType |-> "TypeError",
       message |-> "Cannot read properties of undefined (reading 'map')",
       stack |-> "at App (http://localhost:5173/src/App.tsx:12:5)"],
      [type |-> "RUNTIME_ERROR", errorType |-> "ReferenceError",
       message |-> "boot is not defined",
       stack |-> "at http://localhost:5173/src/main.tsx:3:1"] }
\* and: one that differs from the first only after the 50th character of its
\* text, one of a file the project does not have, one without a source path
\* in its stack, and a message of another kind
RuntimeMessages ==
    DistinctErrors \cup
    { [type |-> "RUNTIME_ERROR", errorType |-> "TypeError",
       message |-> "Cannot read properties of undefined (reading 'length')",
       stack |-> "at App (http://localhost:5173/src/App.tsx:20:9)"],
      [type |-> "RUNTIME_ERROR", errorType |-> "Error",
       message |-> "chunk failed",
       stack |-> "at http://localhost:5173/src/pages/Home.tsx:1:1"],
      [type |-> "RUNTIME_ERROR", errorType |-> "Error",
       message |-> "Script error.",
       stack |-> "at eval (<anonymous>)"],
      [type |-> "webpackOk", errorType |-> "", message |-> "", stack |-> ""] }

\* Chunks the dev server writes
DevChunks == { "[vite] Internal server error\nFailed to resolve import './Foo' from 'src/App.tsx'" }

\* From the upload to the running preview
NextPreview ==
    \/ events < MaxClicks /\ \E z \in Uploads : HandleFileUpload(z.name, z.tree)
    \/ UploadAfterExtract
    \/ events < MaxClicks /\ HandleStartPreview
    \/ events < MaxClicks /\ HandleReset
    \/ \E r \in Suspended : MountAfterBoot(r) /\ HookStep
    \/ \E r \in Suspended : MountAfterMount(r) /\ HookStep
    \/ \E r \in Suspended : StartPreviewAfterMount(r)
    \/ \E r \in Suspended : StartAfterBoot(r) /\ HookStep
    \/ \E r \in Suspended : StartAfterSpawnInstall(r) /\ HookStep
    \/ \E r \in Suspended : StartAfterExit(r) /\ HookStep
    \/ \E r \in Suspended : StartAfterSpawnDev(r) /\ HookStep
    \/ ProcExit /\ HookStep
    \/ ServerReady /\ HookStep

SpecPreview == PreWarmedPage(0) /\ [][NextPreview]_vars

\* The page showing the running preview of an uploaded project with the lines
\* out in its terminal: pre-warmed, project installed, dev server ready,
\* nothing in flight
RunningWith(zip, out) ==
    /\ webcontainerInstance = 1 /\ bootPromise = 1
    /\ preWarmPromise = "settled" /\ isPreWarmedFlag = TRUE
    /\ isBooting = FALSE /\ isInstalling = FALSE /\ isRunning = TRUE
    /\ previewUrl = Url(3) /\ error = Null
    /\ terminalOutput = out
    /\ isPreWarmed = TRUE /\ isPreWarming = FALSE
    /\ processRef = 3
    /\ bootOutcome = <<"ok">>
    /\ listeners = 1
    /\ procs = <<[NewProc("baseInstall", Pending) EXCEPT !.alive = FALSE, !.exit = 0],
                 [NewProc("install", Pending) EXCEPT !.alive = FALSE, !.exit = 0],
                 [NewProc("dev", 0) EXCEPT !.ready = TRUE]>>
    /\ fs = MountTree(MountTree(EmptyFs, BASE_FILES),
                      Instrumented(toWebContainerFS(zip.tree, findRootPrefix(zip.tree))))
    /\ pw = [pc |-> "done", bp |-> 1, proc |-> 1, joined |-> 0]
    /\ preWarmCalls = 1
    /\ depsCache = FreshCache
    /\ tasks = EmptyBag
    /\ calls = 0
    /\ lastOp = "serverReady"
    /\ files = zip.tree /\ filesRef = zip.tree
    /\ selectedFile = MainFile(zip.tree) /\ zipName = zip.name
    /\ isExtracting = FALSE /\ upload = <<>>
    /\ isFixing = FALSE /\ fixingRef = FALSE
    /\ currentAction = Null
    /\ fixCount = 0 /\ fixLog = <<>>
    /\ fixAttempts = 0 /\ lastErrorRef = ""
    /\ debounce = parseError(out)
    /\ rtTimers = <<>>
    /\ session = 1

\* What mountFiles and startDevServer have written when the server is ready
StartOutput ==
    <<"Mounting project files...", "Error reporter injected", "Files mounted",
      "Installing project dependencies...", "Dependencies ready",
      "Starting dev server...", "Server ready at " \o Url(3)>>

\* after the upload and the click on Start Preview
Running(zip) == RunningWith(zip, StartOutput) /\ events = 2

RunningPreview == Running([name |-> "app.zip", tree |-> Project])

\* RunningPreview is a state the page reaches from PreWarmedPage(0)
NotRunningPreview == ~RunningPreview

\* Errors and fixes in the running preview, until the user abandons it
NextFix ==
    \/ events < MaxEvents /\ HandleReset
    \/ events < MaxEvents /\ \E z \in Uploads : HandleFileUpload(z.name, z.tree)
    \/ UploadAfterExtract
    \/ events < MaxEvents /\ \E p \in AliveDev, chunk \in DevChunks : ProcOutput(p, chunk)
    \/ /\ events < MaxEvents /\ Len(rtTimers) < MaxTimers
       /\ \E data \in RuntimeMessages : HandleRuntimeError(data)
    \/ DebounceFire
    \/ RtTimerFire
    \/ /\ events < MaxEvents
       /\ \E r \in Suspended : \E reply \in FixerReplies(r.content) : FixAfterFetch(r, reply)
    \/ \E r \in Suspended : UpdateAfterBoot(r) /\ HookStep
    \/ \E r \in Suspended : UpdateAfterWrite(r) /\ HookStep
    \/ \E r \in Suspended : FixAfterUpdate(r)

SpecFix == RunningPreview /\ [][NextFix]_vars

\* The same two stretches for the project zipped with its folder
NextPreviewRooted ==
    \/ events < MaxClicks /\ \E z \in RootedUploads : HandleFileUpload(z.name, z.tree)
    \/ UploadAfterExtract
    \/ events < MaxClicks /\ HandleStartPreview
    \/ \E r \in Suspended : MountAfterBoot(r) /\ HookStep
    \/ \E r \in Suspended : MountAfterMount(r) /\ HookStep
    \/ \E r \in Suspended : StartPreviewAfterMount(r)
    \/ \E r \in Suspended : StartAfterBoot(r) /\ HookStep
    \/ \E r \in Suspended : StartAfterSpawnInstall(r) /\ HookStep
    \/ \E r \in Suspended : StartAfterExit(r) /\ HookStep
    \/ \E r \in Suspended : StartAfterSpawnDev(r) /\ HookStep
    \/ ProcExit /\ HookStep
    \/ ServerReady /\ HookStep

SpecPreviewRooted == PreWarmedPage(0) /\ [][NextPreviewRooted]_vars

RunningRooted == Running([name |-> "my-app.zip", tree |-> RootedProject])

\* RunningRooted is a state the page reaches from PreWarmedPage(0)
NotRunningRooted == ~RunningRooted

NextFixRooted ==
    \/ events < MaxEvents /\ HandleReset
    \/ events < MaxEvents /\ \E p \in AliveDev, chunk \in DevChunks : ProcOutput(p, chunk)
    \/ /\ events < MaxEvents /\ Len(rtTimers) < MaxTimers
       /\ \E data \in DistinctErrors : HandleRuntimeError(data)
    \/ DebounceFire
    \/ RtTimerFire
    \/ /\ events < MaxEvents
       /\ \E r \in Suspended : \E reply \in FixerReplies(r.content) : FixAfterFetch(r, reply)
    \/ \E r \in Suspended : UpdateAfterBoot(r) /\ HookStep
    \/ \E r \in Suspended : UpdateAfterWrite(r) /\ HookStep
    \/ \E r \in Suspended : FixAfterUpdate(r)

SpecFixRooted == RunningRooted /\ [][NextFixRooted]_vars

\* A preview that keeps reporting errors, none the same as the one it
\* reported just before
Accepted == isRunning /\ ~fixingRef /\ ~isFixing /\ fixAttempts < MAX_FIX_ATTEMPTS
Novel(data) ==
    LET file == parseStackTrace(data.stack)
        text == "Runtime Error (" \o data.errorType \o ")\n" \o data.message
                \o "\n\nStack trace:\n" \o data.stack
        last == rtTimers[Len(rtTimers)]
    IN  errorKey(file, text) # (IF rtTimers = <<>> THEN lastErrorRef
                                ELSE errorKey(last.file, last.error))

\* A long session with the fixer service down: its requests fail before the
\* next timeout fires, and the preview reports its errors in bursts, the next
\* burst after the timeouts of the last one have fired
NextBudget ==
    \/ /\ Accepted /\ Len(rtTimers) < MaxTimers
       /\ rtTimers = <<>> \/ lastOp = "handleRuntimeError"
       /\ \E data \in DistinctErrors : Novel(data) /\ HandleRuntimeError(data)
    \/ ~fixingRef /\ RtTimerFire
    \/ \E r \in Suspended : FixAfterFetch(r, [ok |-> FALSE, fixedCode |-> ""])

SpecBudget == RunningPreview /\ [][NextBudget]_vars

(* --------------------------- a long install --------------------------- *)
\* The n-th chunk of a process: one line of text, an empty line, a cursor
\* control sequence and a blank line
OutLine(n) == "added package " \o ToString(n)
OutChunk(n) == OutLine(n) \o "\n\n[0K\n \n"

\* Page load with a talkative base install
NextOutput ==
    \/ CallPreWarm /\ NoApp
    \/ EngineBootResolve /\ NoApp
    \/ PreWarmAfterBoot /\ NoApp
    \/ PreWarmAfterMount /\ NoApp
    \/ PreWarmAfterSpawn /\ NoApp
    \/ PreWarmAfterExit /\ NoApp
    \/ ProcExit /\ NoApp
    \/ events < MaxLines /\ \E p \in Pids : ProcOutput(p, OutChunk(events))

SpecOutput == Init /\ [][NextOutput]_vars

(* ============================== claims ================================ *)

BootCallers ==
    {r.bp : r \in {q \in Suspended : q.pc = "awaitBoot"}}
    \cup (IF pw.pc = "awaitBoot" THEN {pw.bp} ELSE {})
PendingBoots == {k \in 1..engineBoots : bootOutcome[k] = "pending"}
InstanceHolders ==
    {r.bp : r \in {q \in Suspended : q.pc # "awaitBoot"}}
    \cup (IF pw.pc \in {"awaitMount", "awaitSpawn", "awaitExit"} THEN {pw.bp} ELSE {})

\* C1: callers of boot() that overlap share one engine boot: at most one
\* WebContainer.boot() is in flight and it is the one bootPromise names, every
\* caller waiting on a pending boot waits on that one, every caller that got
\* an instance got the one instance, and no engine boot was issued after the
\* boot that produced the instance.
C1_BootCoalesced ==
    /\ Cardinality(PendingBoots) <= 1
    /\ PendingBoots \subseteq {bootPromise}
    /\ \A b \in BootCallers : bootOutcome[b] = "pending" => b = bootPromise
    /\ \A b \in BootCallers : bootOutcome[b] = "ok" => b = webcontainerInstance
    /\ \A b \in InstanceHolders : b = webcontainerInstance
    /\ webcontainerInstance # NoHandle =>
         /\ engineBoots = webcontainerInstance
         /\ bootOutcome[webcontainerInstance] = "ok"

C1_Witness ==
    /\ pw.pc = "awaitBoot"
    /\ BagCardinality(tasks) >= 2
    /\ \A r \in Suspended : r.pc = "awaitBoot" /\ r.bp = pw.bp
    /\ webcontainerInstance = pw.bp
    /\ engineBoots = 1

BaseInstalls == {p \in Pids : procs[p].kind = "baseInstall"}

\* C6: the base-dependency install is spawned at most once, however often and
\* whenever preWarm() is called; a pre-warm that got as far as its install
\* (waiting for it, or pre-warmed) spawned exactly one.
C6_PreWarmInstallOnce ==
    /\ Cardinality(BaseInstalls) <= 1
    /\ (isPreWarmedFlag \/ pw.pc = "awaitExit") => Cardinality(BaseInstalls) = 1

C6_Witness ==
    /\ pw.joined >= 1
    /\ preWarmCalls >= 2
    /\ pw.pc = "done"
    /\ Cardinality(BaseInstalls) = 1

\* C7: right after reset() the session run state is clean: no preview URL,
\* not running, not installing, no error, empty output buffer, no handle held.
C7_ResetClears ==
    lastOp = "reset" =>
        /\ previewUrl = Null
        /\ ~isRunning
        /\ ~isInstalling
        /\ error = Null
        /\ terminalOutput = <<>>
        /\ processRef = NoHandle

C7_Witness ==
    /\ lastOp = "reset"
    /\ \E p \in Pids : procs[p].kind = "dev" /\ procs[p].ready /\ ~procs[p].alive
    /\ \E r \in Suspended : r.pc = "awaitExit"

\* C9: a dev server is spawned only by a startDevServer() call whose install
\* process exited with code 0.
C9_NoDevServerAfterFailedInstall ==
    \A p \in Pids : procs[p].kind = "dev" => procs[p].after = 0

\* C10: at most one dev-server process is alive in the sandbox.
C10_OneDevServerAlive == Cardinality(AliveDev) <= 1

\* Fix attempts in flight: awaiting the fixer, or writing its result
FixesInFlight ==
    BagCardinality([r \in {q \in Suspended : q.op = "fixCodeError" \/ q.k = "fixCodeError"}
                       |-> tasks[r]])
FixerRequests ==
    BagCardinality([r \in {q \in Suspended : q.op = "fixCodeError"} |-> tasks[r]])

\* C2: the fix attempt counter never exceeds MAX_FIX_ATTEMPTS.
C2_AttemptsWithinBudget == fixAttempts <= MAX_FIX_ATTEMPTS

\* C3: no request to the fixer service is sent once the attempt counter has
\* reached MAX_FIX_ATTEMPTS: every request outstanding is one of the first
\* MAX_FIX_ATTEMPTS attempts of its session.
C3_NoRequestBeyondBudget ==
    \A r \in Suspended : r.op = "fixCodeError" => r.attempt <= MAX_FIX_ATTEMPTS

\* C4: at most one fix attempt is in flight, so at most one fixer request is
\* outstanding; fixingRef is set exactly while an attempt is in flight.
C4_OneFixerRequest ==
    /\ FixesInFlight <= 1
    /\ FixerRequests <= 1
    /\ fixingRef <=> FixesInFlight = 1

C4_Witness ==
    /\ FixerRequests = 1
    /\ lastOp = "runtimeTimeout"
    /\ rtTimers = <<>>
    /\ fixAttempts = 1
    /\ fixLog = <<"Runtime Error in src/App.tsx", "Runtime Error in src/main.tsx",
                  "Fixing: src/App.tsx">>

\* The candidate a timeout step hands to fixCodeError has the key of the last
\* candidate that got past the guards
DuplicateFires ==
    \/ /\ lastOp' = "runtimeTimeout"
       /\ errorKey(Head(rtTimers).file, Head(rtTimers).error) = lastErrorRef
    \/ /\ lastOp' = "watchTimeout"
       /\ errorKey(debounce.file, debounce.error) = lastErrorRef

\* C5: a candidate whose dedup key equals that of the previous candidate is
\* dropped: no fixer request is sent for it and the attempt counter, the
\* last key and the fix log stay as they are.
C5_DuplicateDropped ==
    [][DuplicateFires => UNCHANGED <<tasks, fixAttempts, lastErrorRef, fixLog, fixingRef>>]_vars

C5_Witness ==
    /\ lastOp = "runtimeTimeout"
    /\ rtTimers = <<>>
    /\ tasks = EmptyBag
    /\ ~fixingRef
    /\ fixAttempts = 1
    /\ fixLog = <<"Runtime Error in src/App.tsx", "Runtime Error in src/App.tsx",
                  "Fixing: src/App.tsx", "Error: Error: Backend failed">>

\* C8: the result of a fix attempt started before a reset is discarded: no
\* write to the sandbox is made on its behalf, and no fix is counted while
\* the project has been abandoned.
C8_StaleFixDiscarded ==
    /\ \A r \in Suspended : r.k = "fixCodeError" => r.gen = session
    /\ files = <<>> => fixCount = 0

\* C11: the output buffer holds at most OUTPUT_KEEP lines, the line just
\* written is its last line, and the lines of a process stand in it in the
\* order they were written, none missing in between.
C11_BufferCapped ==
    /\ Len(terminalOutput) <= OUTPUT_KEEP
    /\ lastOp = "output" => terminalOutput[Len(terminalOutput)] = OutLine(events - 1)
    /\ \A i \in 1..(Len(terminalOutput) - 1) : \A n \in 0..MaxLines :
           terminalOutput[i] = OutLine(n) =>
               \/ terminalOutput[i + 1] = OutLine(n + 1)
               \/ \A m \in 0..MaxLines : terminalOutput[i + 1] # OutLine(m)

\* The content the project tree holds for a path ("" if it has no such file)
ContentAt(nodes, path) ==
    LET allFiles == flattenFiles(nodes)
    IN  FindFirst(allFiles, {k \in DOMAIN allFiles : allFiles[k].path = path}).content

\* The step handles the reply to request r, and the reply is empty or the
\* content the tree holds for the target file
NoopReply(r) ==
    /\ r.op = "fixCodeError" /\ r.pc = "awaitFetch"
    /\ tasks' = Finish(r) \/ \E q \in BagToSet(tasks') : q.k = "fixCodeError"
    /\ lastOp' \in {"reply:", "reply:" \o ContentAt(files, PathOf(r))}

\* C12: a fixer reply that is empty or equal to the target file's content
\* changes neither the project tree nor the sandbox filesystem, starts no
\* write, logs nothing and leaves the fixed-count as it is.
C12_NoopReplyChangesNothing ==
    [][\A r \in Suspended :
           NoopReply(r) => /\ tasks' = Finish(r)
                           /\ UNCHANGED <<files, filesRef, fs, fixCount, fixLog>>]_vars

C12_Witness ==
    /\ lastOp = "reply:app v1"
    /\ fixLog = <<"Runtime Error in src/App.tsx", "Fixing: src/App.tsx">>
    /\ fixCount = 0
    /\ tasks = EmptyBag
    /\ ~fixingRef
    /\ ContentAt(files, "src/App.tsx") = "app v1"

\* Runtime-error messages whose stack names no project source file
NoPathMessages ==
    {d \in RuntimeMessages : d.type = "RUNTIME_ERROR" /\ parseStackTrace(d.stack) = Null}

\* C13: a RUNTIME_ERROR message without a source path in its stack, received
\* while the preview is running, sets no fix timeout, starts no fixer request,
\* leaves the attempt counter as it is and appends the warning to the fix log.
C13_NoPathWarned ==
    [][\A d \in NoPathMessages :
           (isRunning /\ HandleRuntimeError(d)) =>
               /\ fixLog' = Append(fixLog, "Runtime error detected but file path not found")
               /\ UNCHANGED <<fixAttempts, rtTimers, tasks>>]_vars

\* Where mountFiles put the file of a tree path: the path without the root
\* prefix of the tree
MountedAt(nodes, path) ==
    LET stripPrefix == findRootPrefix(nodes)
    IN  IF stripPrefix # "" /\ StartsWith(path, stripPrefix)
        THEN SubSeq(path, Len(stripPrefix) + 1, Len(path))
        ELSE path

\* C14: when a fix attempt of the running preview ends in success, the tree
\* node of the target file and the sandbox file mounted for it both hold the
\* fixer's code, and if it was the first attempt of the run both counters
\* read 1.
C14_FixReachesTreeAndSandbox ==
    [][\A r \in Suspended :
           (FixAfterUpdate(r) /\ r.gen = session /\ isRunning) =>
               LET path == PathOf(r)
                   at == MountedAt(filesRef, path)
               IN  /\ ContentAt(files', path) = r.arg[path]
                   /\ at \in DOMAIN fs' /\ fs'[at] = r.arg[path]
                   /\ r.attempt = 1 => fixAttempts' = 1 /\ fixCount' = 1]_vars

(* ------------------- the watcher's reading of the terminal ------------- *)
\* lines the dev server writes while the watcher reads the terminal
MaxAppends == 3

\* Lines a dev server writes: the unresolved import, a hot update of another
\* file, two errors that name no file, a header whose message is on the next
\* line, a line that only resembles the unresolved import, and a plain one
ResolveLine == "Failed to resolve import './Foo' from 'src/App.tsx'"
HeaderLine == "Uncaught TypeError:"
ServerLines ==
    { ResolveLine,
      "[vite] hmr update /src/main.tsx",
      "ReferenceError: boot is not defined",
      "Error: Cannot find module 'react-router'",
      HeaderLine,
      "Failed to resolve import ./Foo from src/App.jsx",
      "ready in 312 ms" }

\* n lines that carry nothing
RECURSIVE Quiet(_)
Quiet(n) == IF n = 0 THEN <<>> ELSE <<"ok">> \o Quiet(n - 1)

\* Terminals of a running preview: just started, or with one server line
\* followed by almost PARSE_LINES quiet ones
Terminals ==
    {StartOutput} \cup
    { <<first>> \o Quiet(n) : first \in {ResolveLine, HeaderLine},
                              n \in {PARSE_LINES - 3, PARSE_LINES - 2} }

InitParse ==
    \E out \in Terminals :
        RunningWith([name |-> "app.zip", tree |-> Project], out) /\ events = 0

\* The dev server writes line after line; the watch effect reads the terminal
\* after each
NextParse ==
    events < MaxAppends /\ \E p \in AliveDev, line \in ServerLines : ProcOutput(p, line)

SpecParse == InitParse /\ [][NextParse]_vars

\* The lines parseError reads
Recent == SliceLast(terminalOutput, PARSE_LINES)

\* C15: whenever the unresolved-import message of src/App.tsx is among the
\* last 60 lines of the terminal, the candidate the watcher gets from
\* parseError names src/App.tsx.
C15_ResolveErrorNamesImporter ==
    (\E i \in DOMAIN Recent : Includes(Recent[i], ResolveLine)) => debounce.file = "src/App.tsx"

\* What the server lines carry: the lines with a failure signature (the
\* header has one once a line follows it) and the lines with a source path
SignatureLines ==
    {ResolveLine, "ReferenceError: boot is not defined",
     "Error: Cannot find module 'react-router'"}
PathLines == {ResolveLine, "[vite] hmr update /src/main.tsx"}
HasSignature ==
    \E i \in DOMAIN Recent :
        Recent[i] \in SignatureLines \/ (Recent[i] = HeaderLine /\ i < Len(Recent))
HasPath == \E i \in DOMAIN Recent : Recent[i] \in PathLines

\* C16: the watcher gets a candidate from parseError exactly when the last 60
\* lines of the terminal carry a failure signature and a source path; none
\* when only one of the two is there.
C16_CandidateIffSignatureAndPath ==
    debounce # NoCandidate <=> (HasSignature /\ HasPath)

C16_Witness ==
    /\ Len(terminalOutput) = PARSE_LINES + 1
    /\ terminalOutput[1] = ResolveLine
    /\ SubSeq(terminalOutput, PARSE_LINES, PARSE_LINES + 1)
         = <<"[vite] hmr update /src/main.tsx", "ReferenceError: boot is not defined">>
    /\ debounce.file = "src/main.tsx"

\* The engine boot b is rejected in the step
BootFails(b) == bootOutcome[b] = "pending" /\ bootOutcome'[b] = "failed"

\* C17: the step in which the engine boot fails records the failure (error
\* set, isBooting false) and clears bootPromise, which named that boot; the
\* callers that wait on a failed boot are the ones that waited on it before it
\* failed, so a boot() called afterwards gets a fresh engine boot; and no call
\* goes on to use an instance out of a failed boot.
C17_BootFailureThenRetry ==
    [][/\ \A b \in 1..engineBoots :
              BootFails(b) => /\ b = bootPromise
                              /\ bootPromise' = NoHandle
                              /\ error' # Null /\ ~isBooting'
       /\ \A b \in BootCallers' :
              bootOutcome'[b] = "failed" => b \in BootCallers
       /\ \A b \in InstanceHolders' : bootOutcome'[b] = "ok"
       /\ (webcontainerInstance = NoHandle /\ bootPromise = NoHandle
           /\ BootCallers' \ BootCallers # {}) =>
              /\ engineBoots' = engineBoots + 1
              /\ BootCallers' \ BootCallers = {engineBoots'}
              /\ bootOutcome'[engineBoots'] = "pending"]_vars

C17_Witness ==
    /\ bootOutcome = <<"failed", "pending">>
    /\ bootPromise = 2 /\ webcontainerInstance = NoHandle
    /\ isBooting /\ error = Null
    /\ BootCallers = {2}
    /\ pw.pc = "done" /\ preWarmPromise = "settled"

\* mountFiles call r hands its tree to instance.mount in the step
MountIssued(r) ==
    /\ r.op = "mountFiles" /\ r.pc \in {"awaitBoot", "awaitPreWarm"}
    /\ tasks' = Resume(r, [r EXCEPT !.pc = "awaitMount", !.arg = Instrumented(@)])

\* The pre-warm closure has run to its end, pre-warmed or failed
PreWarmEnded == pw.pc = "done" /\ preWarmPromise = "settled" /\ ~isPreWarming

\* C18: mountFiles hands the project to instance.mount only once the pre-warm
\* has ended (no base mount or base install of it is still to come), and once
\* the pre-warm has ended, pre-warmed or not, the promise that a waiting
\* mountFiles call awaits is settled, so the call goes on.
C18_MountWaitsForPreWarm ==
    [][\A r \in Suspended :
           /\ MountIssued(r) => PreWarmEnded
           /\ (r.op = "mountFiles" /\ r.pc = "awaitPreWarm" /\ pw.pc = "done")
                  => preWarmPromise = "settled"]_vars

C18_Witness ==
    /\ lastOp = "mountFiles"
    /\ pw.pc = "done" /\ ~isPreWarmedFlag
    /\ procs # <<>> /\ procs[1].kind = "baseInstall" /\ procs[1].exit = 1
    /\ \E i \in DOMAIN terminalOutput : terminalOutput[i] = "Waiting for base setup..."
    /\ terminalOutput[Len(terminalOutput)] = "Files mounted"
    /\ fs["src/App.tsx"] = "app v1"

(* --------------------- resets while the page loads --------------------- *)
\* The page loads (boot and pre-warm) and reset() is called at any point
NextLoad ==
    \/ CallPreWarm /\ NoApp
    \/ EngineBootResolve /\ NoApp
    \/ EngineBootReject /\ NoApp
    \/ PreWarmAfterBoot /\ NoApp
    \/ PreWarmAfterMount /\ NoApp
    \/ PreWarmAfterSpawn /\ NoApp
    \/ PreWarmAfterExit /\ NoApp
    \/ ProcExit /\ NoApp
    \/ Reset /\ NoApp

SpecLoad == Init /\ [][NextLoad]_vars

\* C19: a reset() step changes neither the sandbox instance, nor the in-flight
\* boot marker, nor the pre-warm promise, nor the pre-warmed flag.
C19_ResetKeepsSandbox ==
    [][lastOp' = "reset" =>
           UNCHANGED <<webcontainerInstance, bootPromise, preWarmPromise, isPreWarmedFlag>>]_vars

C19_Witness ==
    /\ lastOp = "reset"
    /\ webcontainerInstance = NoHandle /\ bootPromise = 1
    /\ bootOutcome = <<"pending">>
    /\ preWarmPromise = "pending" /\ ~isPreWarmedFlag
    /\ terminalOutput = <<>>

\* No startDevServer() call was made since the last reset(): the line every
\* call writes first is not in the terminal (only reset clears it) and no call
\* is still before it
NoStartSinceReset ==
    /\ \A i \in DOMAIN terminalOutput : terminalOutput[i] # "Installing project dependencies..."
    /\ \A r \in Suspended : ~(r.op = "startDevServer" /\ r.pc = "awaitBoot")

\* C20: as long as startDevServer() has not been called since the last
\* reset(), no dev server is alive, the preview is not running and it has no
\* URL.
C20_QuietUntilNextStart ==
    NoStartSinceReset => AliveDev = {} /\ ~isRunning /\ previewUrl = Null

(* ------------------ fix attempts that run to their end ----------------- *)
\* Runtime errors of a file of the project and of a file it does not have
LiveMessages ==
    { [type |-> "RUNTIME_ERROR", errorType |-> "TypeError",
       message |-> "Cannot read properties of undefined (reading 'map')",
       stack |-> "at App (http://localhost:5173/src/App.tsx:12:5)"],
      [type |-> "RUNTIME_ERROR", errorType |-> "Error",
       message |-> "chunk failed",
       stack |-> "at http://localhost:5173/src/pages/Home.tsx:1:1"] }

\* The fixer service answers a request
FixerAnswers ==
    \E r \in Suspended : \E reply \in FixerReplies(r.content) : FixAfterFetch(r, reply)
\* The continuations of a fix attempt that are ready to run
UpdateBooted == \E r \in Suspended : UpdateAfterBoot(r) /\ HookStep
UpdateWritten == \E r \in Suspended : UpdateAfterWrite(r) /\ HookStep
FixResumes == \E r \in Suspended : FixAfterUpdate(r)

\* The user and the preview act a bounded number of times; timeouts fire, the
\* fixer answers and the continuations run whenever they can
NextFixLive ==
    \/ events < MaxEvents /\ HandleReset
    \/ /\ events < MaxEvents /\ Len(rtTimers) < MaxTimers
       /\ \E data \in LiveMessages : HandleRuntimeError(data)
    \/ RtTimerFire
    \/ FixerAnswers
    \/ UpdateBooted
    \/ UpdateWritten
    \/ FixResumes

\* The event loop does not stand still while a timeout or a continuation is
\* ready, and the fixer request completes
FixProgress == RtTimerFire \/ FixerAnswers \/ UpdateBooted \/ UpdateWritten \/ FixResumes

SpecFixLive == RunningPreview /\ [][NextFixLive]_vars /\ WF_vars(FixProgress)

\* C21: an attempt that set the in-flight flag clears it in the end, whatever
\* its outcome, and the flag is never set while no attempt is in flight.
C21_FlagClearedInTheEnd ==
    /\ fixingRef ~> ~fixingRef
    /\ [](FixesInFlight = 0 => ~fixingRef /\ ~isFixing)

C21_Witness ==
    /\ ~fixingRef /\ ~isFixing /\ tasks = EmptyBag
    /\ fixAttempts = 2 /\ fixCount = 1
    /\ fixLog = <<"Runtime Error in src/pages/Home.tsx", "Runtime Error in src/App.tsx",
                  "File not found: src/pages/Home.tsx", "Fixing: src/App.tsx",
                  "Fixed: src/App.tsx">>

\* The step ends a fix attempt in one of its failure outcomes: no file found
\* for the candidate, the fixer request failed, or the reply changes nothing
FileNotFoundStep ==
    /\ lastOp' \in {"watchTimeout", "runtimeTimeout"}
    /\ fixAttempts' = fixAttempts + 1 /\ tasks' = tasks
FailureOutcome ==
    \/ FileNotFoundStep
    \/ lastOp' = "replyFailed"
    \/ \E r \in Suspended : NoopReply(r)

\* C22: each failure outcome of a fix attempt appends one entry to the fix
\* log, and the attempt returns to its caller (the in-flight flag is cleared,
\* nothing of it stays suspended).
C22_FailuresLogged ==
    [][FailureOutcome =>
           /\ Len(fixLog') = Len(fixLog) + 1
           /\ ~fixingRef' /\ FixesInFlight' = 0]_vars

(* ------------------- resolving the file of a candidate ----------------- *)
\* A project that has an App.tsx outside src as well
TwoAppsProject ==
    << File("index.html", "index.html", "<html><head></head></html>"),
       Dir("lib", "lib", << File("App.tsx", "lib/App.tsx", "lib app v1") >>),
       Dir("src", "src", << File("App.tsx", "src/App.tsx", "app v1"),
                            File("main.tsx", "src/main.tsx", "main v1") >>) >>

ResolveUploads ==
    Uploads \cup RootedUploads \cup {[name |-> "two-apps.zip", tree |-> TwoAppsProject]}

InitResolve == \E z \in ResolveUploads : Running(z)

\* Runtime errors of the running preview, each resolved to a file and fixed
NextResolve ==
    \/ /\ events < MaxEvents /\ Len(rtTimers) < MaxTimers
       /\ \E data \in LiveMessages : HandleRuntimeError(data)
    \/ RtTimerFire
    \/ events < MaxEvents /\ FixerAnswers
    \/ UpdateBooted
    \/ UpdateWritten
    \/ FixResumes

SpecResolve == InitResolve /\ [][NextResolve]_vars

\* The ways a file matches a candidate path, strictest first
MatchesAt(f, errorFile, level) ==
    CASE level = 1 -> f.path = errorFile
      [] level = 2 -> EndsWith(f.path, errorFile)
      [] level = 3 -> Includes(f.path, ReplaceFirst(errorFile, "src/", ""))
      [] OTHER     -> f.name = BaseName(errorFile)

\* The strictest way in which some file of the tree matches the candidate
\* (5 if none does)
StrictestLevel(nodes, errorFile) ==
    LET allFiles == flattenFiles(nodes)
        L == {l \in 1..4 : \E k \in DOMAIN allFiles : MatchesAt(allFiles[k], errorFile, l)}
    IN  IF L = {} THEN 5 ELSE CHOOSE l \in L : \A m \in L : l <= m

\* C23: the file a fix request is sent for matches the candidate in the
\* strictest way in which any file of the tree matches it.
C23_StrictestMatchChosen ==
    \A r \in Suspended :
        (r.op = "fixCodeError" /\ r.pc = "awaitFetch" /\ r.gen = session) =>
            \E f \in {filesRef[1]} \cup {flattenFiles(filesRef)[k] : k \in DOMAIN flattenFiles(filesRef)} :
                /\ f.path = PathOf(r)
                /\ \E errorFile \in {parseStackTrace(d.stack) : d \in LiveMessages} :
                       /\ currentAction = "Fixing: " \o errorFile
                       /\ MatchesAt(f, errorFile, StrictestLevel(filesRef, errorFile))

\* C24: once error is set it stays set until reset(): no other step of the
\* hook takes it back to null.
C24_ErrorStaysUntilReset ==
    [][(error # Null /\ error' = Null) => lastOp' = "reset"]_vars

\* The session state as handleReset is meant to leave it
Reinitialized ==
    /\ files = <<>> /\ filesRef = <<>>
    /\ terminalOutput = <<>>
    /\ ~isRunning /\ ~isInstalling /\ previewUrl = Null /\ error = Null
    /\ fixAttempts = 0 /\ lastErrorRef = ""

\* C25: right after handleReset the tree and the output are empty, the run
\* flags are cleared, and the fix state is back at its start: counter 0, no
\* last key, and no fix marked as in flight.
C25_ResetReinitializesSession ==
    lastOp = "handleReset" => Reinitialized /\ ~fixingRef /\ ~isFixing

\* handleReset with no fix in flight
C25_IdleResetReinitializes ==
    (lastOp = "handleReset" /\ FixesInFlight = 0) => Reinitialized /\ ~fixingRef /\ ~isFixing

\* C26: a fix attempt starts only while the preview is running: the step
\* that increments the attempt counter, or sends a request to the fixer, is
\* taken with isRunning true.
C26_AttemptsOnlyWhileRunning ==
    [][(fixAttempts' = fixAttempts + 1 \/ FixerRequests' > FixerRequests) => isRunning]_vars

\* The same for the attempts the terminal watch starts
C26_WatchAttemptsOnlyWhileRunning ==
    [][(lastOp' = "watchTimeout" /\ fixAttempts' = fixAttempts + 1) => isRunning]_vars

\* The candidates a step hands to fixCodeError
Fired ==
    IF lastOp' = "runtimeTimeout" THEN {Head(rtTimers)}
    ELSE IF lastOp' = "watchTimeout" THEN {debounce} ELSE {}

\* C27: a candidate that arrives with no fix in flight and a key other than
\* the last triggered one starts an attempt, whether or not its key has
\* triggered before: of candidates A, B, A each starts one.
C27_RecurrenceRetriggers ==
    [][\A c \in Fired :
          (~fixingRef /\ errorKey(c.file, c.error) # lastErrorRef) =>
              /\ fixAttempts' = fixAttempts + 1
              /\ lastErrorRef' = errorKey(c.file, c.error)]_vars

\* Home.tsx, App.tsx, Home.tsx again: three attempts
C27_Witness ==
    /\ fixAttempts = 3
    /\ tasks = EmptyBag
    /\ fixLog = <<"Runtime Error in src/pages/Home.tsx", "File not found: src/pages/Home.tsx",
                  "Runtime Error in src/App.tsx", "Fixing: src/App.tsx",
                  "Error: Error: Backend failed",
                  "Runtime Error in src/pages/Home.tsx", "File not found: src/pages/Home.tsx">>

(* ------------------ candidates arriving during a fix ------------------- *)
\* The running preview where the dev server writes only while a fix is in
\* flight: every candidate the terminal holds has arrived during a fix
NextBusy ==
    \/ /\ events < MaxEvents /\ fixingRef
       /\ \E p \in AliveDev, chunk \in DevChunks : ProcOutput(p, chunk)
    \/ /\ events < MaxEvents /\ Len(rtTimers) < MaxTimers
       /\ \E data \in LiveMessages : HandleRuntimeError(data)
    \/ DebounceFire
    \/ RtTimerFire
    \/ events < MaxEvents /\ FixerAnswers
    \/ UpdateBooted
    \/ UpdateWritten
    \/ FixResumes

SpecBusy == RunningPreview /\ [][NextBusy]_vars

\* The step that delivers a candidate while a fix is in flight changes neither
\* the counter nor the last key, sends nothing and schedules nothing
DroppedOnArrival ==
    (fixingRef /\ lastOp' \in {"output", "handleRuntimeError", "runtimeTimeout"}) =>
        /\ UNCHANGED <<fixAttempts, lastErrorRef, tasks, fixLog>>
        /\ Len(rtTimers') <= Len(rtTimers)
        /\ debounce' = NoCandidate

\* C28: a candidate that arrives while a fix is in flight is dropped: its
\* arrival changes neither the counter nor the last key and queues nothing,
\* and no attempt is started for it once the fix in flight has completed.
C28_BusyCandidateDropped ==
    [][/\ DroppedOnArrival
       /\ lastOp' = "watchTimeout" => UNCHANGED <<fixAttempts, lastErrorRef, tasks>>]_vars

\* The arrival alone
C28_DroppedWhenItArrives == [][DroppedOnArrival]_vars

\* No file of the tree that has content matches the candidate in any way
NothingResolves(nodes, errorFile) ==
    \A k \in DOMAIN flattenFiles(nodes) : \A level \in 1..4 :
        MatchesAt(flattenFiles(nodes)[k], errorFile, level) => flattenFiles(nodes)[k].content = ""

\* C29: a candidate that passes the guards and resolves to no file with
\* content is logged as not found and counted; no request is sent for it and
\* the tree and the sandbox stay as they are.
C29_FileNotFoundAborts ==
    [][\A c \in Fired :
          (~fixingRef /\ errorKey(c.file, c.error) # lastErrorRef
             /\ NothingResolves(filesRef, c.file)) =>
              /\ fixLog' = Append(fixLog, "File not found: " \o c.file)
              /\ fixAttempts' = fixAttempts + 1
              /\ UNCHANGED <<tasks, files, filesRef, fs, fixingRef, fixCount>>]_vars

C29_Witness ==
    /\ lastOp = "runtimeTimeout"
    /\ files = Project
    /\ isRunning
    /\ fixAttempts = 1
    /\ tasks = EmptyBag
    /\ fixLog = <<"Runtime Error in src/pages/Home.tsx", "File not found: src/pages/Home.tsx">>

\* C30: when the request to the fixer fails, the failure is logged and the
\* attempt is over; the tree and the sandbox are as before, the attempt
\* stays counted, and the preview keeps running.
C30_FixerFailureAborts ==
    [][lastOp' = "replyFailed" =>
          /\ fixLog' = Append(fixLog, "Error: Error: Backend failed")
          /\ FixerRequests' = FixerRequests - 1
          /\ ~fixingRef' /\ ~isFixing'
          /\ UNCHANGED <<files, filesRef, fs, fixAttempts, fixCount>>
          /\ UNCHANGED <<isRunning, previewUrl, processRef, procs, error>>
          /\ (\A r \in Suspended : r.op = "fixCodeError" => r.gen = session) => fixAttempts' >= 1]_vars

C30_Witness ==
    /\ lastOp = "replyFailed"
    /\ isRunning /\ previewUrl # Null
    /\ files = Project
    /\ "src/App.tsx" \in DOMAIN fs /\ fs["src/App.tsx"] = "app v1"
    /\ fixAttempts = 1 /\ fixCount = 0
    /\ tasks = EmptyBag
    /\ fixLog = <<"Fixing: src/App.tsx", "Error: Error: Backend failed">>

\* Every node of a tree in traversal order, its children given by their number
RECURSIVE AllNodes(_)
AllNodes(nodes) ==
    IF nodes = <<>> THEN <<>>
    ELSE <<[Head(nodes) EXCEPT !.children = Len(@)]>>
         \o AllNodes(Head(nodes).children) \o AllNodes(Tail(nodes))

\* C31: the step that records a fix replaces the content of the node whose
\* path is the target path; every other node, and the number, order and
\* nesting of the nodes, stay as they are.
C31_OnlyTargetNodeReplaced ==
    [][lastOp' = "fixCodeError" =>
          \E r \in Suspended :
              /\ r.op = "updateFile" /\ r.pc = "resolved" /\ r.k = "fixCodeError"
              /\ tasks' = Finish(r)
              /\ Len(AllNodes(files')) = Len(AllNodes(files))
              /\ \A k \in DOMAIN AllNodes(files) :
                     AllNodes(files')[k] =
                         IF AllNodes(files)[k].path = PathOf(r)
                         THEN [AllNodes(files)[k] EXCEPT !.content = r.arg[PathOf(r)]]
                         ELSE AllNodes(files)[k]
              /\ Cardinality({k \in DOMAIN AllNodes(files) : AllNodes(files)[k].path = PathOf(r)}) <= 1]_vars

\* A fix of lib/App.tsx in the project with two App.tsx
C31_Witness ==
    /\ lastOp = "fixCodeError"
    /\ fixCount = 1
    /\ zipName = "two-apps.zip"
    /\ ContentAt(files, "lib/App.tsx") = "lib app v1 fixed"
    /\ ContentAt(files, "src/App.tsx") = "app v1"
    /\ AllNodes(files)[2] = [name |-> "lib", path |-> "lib", type |-> "directory",
                             content |-> "", children |-> 1]

(* ---------------------- the session from page load --------------------- *)
\* The hook alone, from the first render: the pre-warm of the page load, boots
\* that succeed or fail, and dev-server starts once the pre-warm has ended
\* (handleStartPreview awaits mountFiles, which awaits the pre-warm)
NextSession ==
    \/ preWarmCalls = 0 /\ CallPreWarm /\ NoApp
    \/ EngineBootResolve /\ NoApp
    \/ EngineBootReject /\ NoApp
    \/ PreWarmAfterBoot /\ NoApp
    \/ PreWarmAfterMount /\ NoApp
    \/ PreWarmAfterSpawn /\ NoApp
    \/ PreWarmAfterExit /\ NoApp
    \/ ProcExit /\ NoApp
    \/ ServerReady /\ NoApp
    \/ preWarmPromise = "settled" /\ CallStartDevServer /\ NoApp
    \/ \E r \in Suspended : StartAfterBoot(r) /\ NoApp
    \/ \E r \in Suspended : StartAfterSpawnInstall(r) /\ NoApp
    \/ \E r \in Suspended : StartAfterExit(r) /\ NoApp
    \/ \E r \in Suspended : StartAfterSpawnDev(r) /\ NoApp

SpecSession == Init /\ [][NextSession]_vars

\* C32: isRunning turns true only in the step of the server-ready listener,
\* which sets previewUrl to the URL the engine reports and isInstalling to
\* false; the listener is registered once, with the boot that first succeeds.
C32_RunningOnlyByServerReady ==
    [][/\ (isRunning' /\ ~isRunning) => lastOp' = "serverReady"
       /\ lastOp' = "serverReady" =>
              /\ isRunning' /\ ~isInstalling'
              /\ \E p \in Pids : ~procs[p].ready /\ procs'[p].ready /\ previewUrl' = Url(p)
       /\ listeners' # listeners =>
              /\ listeners = 0 /\ listeners' = 1
              /\ webcontainerInstance = NoHandle /\ webcontainerInstance' # NoHandle]_vars

\* The boot of the pre-warm fails, the one startDevServer issues succeeds, and
\* its dev server reports ready
C32_Witness ==
    /\ lastOp = "serverReady"
    /\ Len(bootOutcome) = 2 /\ bootOutcome[2] = "ok"
    /\ webcontainerInstance = 2
    /\ listeners = 1
    /\ isRunning /\ ~isInstalling
    /\ previewUrl = Url(processRef)

\* C33: isInstalling and isRunning are never both true.
C33_InstallingExcludesRunning == ~(isInstalling /\ isRunning)

\* The step of updateFile that meets a failed boot or a failed write
UpdateFails ==
    /\ lastOp' = "updateFile"
    /\ Len(terminalOutput') = Len(terminalOutput) + 1
    /\ StartsWith(terminalOutput'[Len(terminalOutput')], "Failed to update ")

\* C34: no step of updateFile touches the active process or changes
\* isRunning, isInstalling, previewUrl or error; a failed boot or write is a
\* line in the terminal and the call still returns to its caller.
C34_UpdateFileIsHotPatch ==
    [][/\ lastOp' = "updateFile" =>
              UNCHANGED <<isRunning, isInstalling, previewUrl, error, processRef, procs>>
       /\ UpdateFails =>
              /\ UNCHANGED <<fs, error>>
              /\ \E r \in Suspended : r.op = "updateFile" /\ tasks' = Settle(r)]_vars

\* The same once the sandbox has booted
C34_HotPatchOnBootedSandbox ==
    [][(webcontainerInstance # NoHandle /\ lastOp' = "updateFile") =>
           UNCHANGED <<isRunning, isInstalling, previewUrl, error, processRef, procs>>]_vars

\* C35: the pending terminal-watch timeout, if there is one, was set for the
\* terminal as it is now, while running and with no fix in flight: a timeout
\* set for an earlier terminal, or before isRunning or isFixing changed, is gone.
C35_PendingCheckIsOfLatestBuffer ==
    debounce # NoCandidate =>
        /\ debounce = parseError(terminalOutput)
        /\ isRunning /\ ~isFixing /\ ~fixingRef

\* Two chunks of the dev server with no timeout fired in between: the timeout
\* pending is the one of the terminal holding both
C35_Witness ==
    /\ lastOp = "output"
    /\ fixLog = <<>>
    /\ Len(terminalOutput) = Len(StartOutput) + 4
    /\ debounce.file = "src/App.tsx"
    /\ debounce.error = SliceLast(Join(terminalOutput), PARSE_CHARS)

\* C36: the handling of a window message of another type than RUNTIME_ERROR
\* schedules nothing, logs nothing and leaves the fix state as it is.
C36_OtherMessagesIgnored ==
    [][\A data \in RuntimeMessages :
          (data.type # "RUNTIME_ERROR" /\ HandleRuntimeError(data)) =>
              UNCHANGED <<fixVars, rtTimers, debounce, tasks>>]_vars

\* Such a message has reached the running preview with no fix in flight
C36_Witness ==
    /\ lastOp = "handleRuntimeError"
    /\ isRunning /\ ~fixingRef /\ ~isFixing
    /\ fixAttempts = 0
    /\ fixLog = <<>> /\ rtTimers = <<>>

\* C37: the path a fix hands to updateFile is a path at which a file of the
\* project is mounted in the sandbox.
C37_PatchTargetsMountedPath ==
    \A r \in Suspended :
        (r.op = "updateFile" /\ r.k = "fixCodeError" /\ r.gen = session) =>
            PathOf(r) \in DOMAIN fs

\* C38: when a fix is recorded as a success, the sandbox holds the fixer's
\* code at the path that was patched, as the tree does.
C38_SuccessOnlyAfterWrite ==
    [][\A r \in Suspended :
           FixAfterUpdate(r) =>
               /\ PathOf(r) \in DOMAIN fs'
               /\ fs'[PathOf(r)] = r.arg[PathOf(r)]]_vars

\* C39: previewUrl is set only while isRunning is true.
C39_UrlOnlyWhileRunning == previewUrl # Null => isRunning

\* A dev server reports ready after an earlier one, ready itself, was killed
C39_Witness ==
    /\ lastOp = "serverReady"
    /\ previewUrl = Url(processRef) /\ isRunning
    /\ \E p \in Pids : procs[p].kind = "dev" /\ procs[p].ready /\ ~procs[p].alive

(* ------------------- the persisted cache and the pre-warm -------------- *)
\* The page load with calls to the cache module at any point
NextCache ==
    \/ MarkDepsInstalled /\ NoApp
    \/ AreDepsInstalled /\ NoApp
    \/ ClearDepsCache /\ NoApp
    \/ CallPreWarm /\ NoApp
    \/ EngineBootResolve /\ NoApp
    \/ EngineBootReject /\ NoApp
    \/ PreWarmAfterBoot /\ NoApp
    \/ PreWarmAfterMount /\ NoApp
    \/ PreWarmAfterSpawn /\ NoApp
    \/ PreWarmAfterExit /\ NoApp
    \/ ProcExit /\ NoApp

SpecCache == Init /\ [][NextCache]_vars

\* C40: areDepsInstalled() returns true exactly when its read went through
\* and the last of markDepsInstalled/clearDepsCache that went through was a
\* mark; with the store unavailable it returns false; no call of the three
\* changes the hook's state or leaves an error; and preWarm() starts the
\* install exactly when the in-memory flag is false and the promise null,
\* whatever the cache holds.
C40_CacheIsOnlyAHint ==
    /\ [](/\ lastOp = "areDepsInstalled" =>
                (depsCache.result = "true" <=> (~depsCache.caught /\ depsCache.last = "mark"))
          /\ depsCache.db = "failed" => depsCache.result # "true" /\ depsCache.entry = "none"
          /\ depsCache.entry = "installed" <=> depsCache.last = "mark")
    /\ [][/\ lastOp' \in {"markDepsInstalled", "areDepsInstalled", "clearDepsCache"} =>
                 UNCHANGED <<error, isPreWarmedFlag, preWarmPromise, isPreWarmed, tasks>>
          /\ lastOp' = "preWarm" =>
                 ((preWarmPromise' = "pending" /\ pw'.pc = "awaitBoot" /\ pw'.joined = 0)
                     <=> (~isPreWarmedFlag /\ preWarmPromise = Null))]_vars

\* The cache answers "installed" and preWarm() starts the install all the same
C40_Witness ==
    /\ lastOp = "preWarm"
    /\ preWarmCalls = 1 /\ preWarmPromise = "pending" /\ pw.pc = "awaitBoot"
    /\ depsCache.entry = "installed" /\ depsCache.result = "true"

====
